---------------------------- MODULE Spec2Model ----------------------------
(***************************************************************************)
(* Tight Market Crypto strategy (src/src/strategies/tight_market_crypto):  *)
(* the signal engine, the executor with its kill switch and ledger, and    *)
(* the coordinator loop that drives them.                                  *)
(*                                                                         *)
(* Conventions                                                             *)
(*  - Python's Optional[x] is a sequence: None is <<>>, a value v is <<v>>.*)
(*  - Time is an integer clock `now`; a UTC day lasts DayLen clock units.   *)
(*  - Money is counted in units in which the stake (tmc_max_investment) is *)
(*    even, so that the half-stake charged on a failed order is exact.     *)
(*  - Ask prices are in cents (0.50 is 50).                                *)
(*  - Writes to the ledger and shadow files succeed, except in the         *)
(*    close-up of the expiry sweep, where a write can raise.               *)
(***************************************************************************)
EXTENDS Integers, Sequences, FiniteSets, TLC

None == <<>>
Some(v) == <<v>>

-----------------------------------------------------------------------------
(* Bounds of the model *)

DayLen == 4          \* clock units per UTC day
MaxTime == 5         \* the clock stops here
MaxCalls == 3        \* execute() calls made in the executor harness
MaxSamples == 12     \* samples in a history given to get_volatility
MaxUpdates == 3      \* best-ask updates the odds stream delivers per market

-----------------------------------------------------------------------------
(* Config.from_env: the values the strategy reads (scaled to the clock and *)
(* money units of the model)                                               *)

tmc_max_investment == 2
tmc_max_daily_loss == 2
tmc_entry_window == 3
tmc_execution_window == 2
tmc_min_seconds_remaining == 1     \* every tick with time left is eligible
tmc_discovery_interval == 2
tmc_volatility_multiplier == 2
tmc_volatility_boost_factor == 3
tmc_min_volatility == 2
tmc_max_entry_ask == 50
\* read by check_signals
tmc_max_distance_ratio == 1
tmc_odds_bypass_max_ask == 15
tmc_momentum_threshold == 1
tmc_block_confirming_momentum == TRUE

\* CryptoMarketFinder._parse_crypto_market: a market is returned while its
\* expiry is between these two leads away (60 s and 1200 s in the source)
MinLead == 2
MaxLead == 6

\* _main_loop: time.sleep(0.5), one clock unit
LoopSleep == 1

-----------------------------------------------------------------------------
(* The venue's markets.  A condition id names one market with fixed token  *)
(* ids, window-open time and expiry.  m1 opens before the strategy starts; *)
(* m2 opens one execution tick before its expiry.                          *)

Markets == {"m1", "m2"}

YesToken(m) == <<m, "yes">>
NoToken(m) == <<m, "no">>
token_ids(m) == <<YesToken(m), NoToken(m)>>

start_date(m) == IF m = "m1" THEN Some(0) ELSE Some(2)
end_date(m) == 3

PriceVals == {100, 105}
VolVals == {0, 2}        \* volatility, in half percents

-----------------------------------------------------------------------------
VARIABLES
    now,            \* wall clock
    dry_run,        \* config.dry_run
    \* TightMarketCryptoExecutor
    daily_loss,     \* _daily_loss
    daily_reset,    \* _daily_reset (a UTC date)
    killed,         \* _killed
    ledger,         \* the rows of TRADES_FILE
    orders,         \* orders posted to the venue, in order
    last_call,      \* the latest executor call: its arguments, what the
                    \* executor held when it started and what it returned
    ncalls,         \* execute() calls made so far (with several calling
                    \* threads: calls of either kind)
    twin,           \* a second executor, in dry-run mode, given the same calls
    \* TightMarketCryptoCoordinator
    running,        \* _running
    pc,             \* where the main-loop thread is: "new" (not started),
                    \* "initial" (about to run the first discovery), "loop"
                    \* or "done"
    last_discovery, \* _last_discovery
    shadow,         \* the entries of SHADOW_FILE
    \* TightnessTracker
    trackers,       \* _trackers: the tracked condition ids, in insertion order
    strike_price,   \* strike_price of each tracked CryptoMarket
    \* price feed
    price,          \* _prices[asset], the latest price
    volatility,     \* what get_volatility returns for the asset
    \* SignalEngine
    fired,          \* _fired
    skipped_signals,\* _skipped_signals
    \* what the loop has done so far
    opp_count,      \* Opportunities check_signals returned, per market
    exec_count,     \* execute() calls of the loop, per market
    exec_result,    \* how the latest execute() call for a market ended
    tick,           \* what the latest check_signals did with each market
    \* several threads calling one executor
    lock_holder,    \* _lock: the caller that holds it, if any
    caller,         \* where each calling thread is, and its local variables
    nsaved,         \* rows that completed _save_trade calls have written
    \* _discover_and_clean called at any time: what has been observed
    spot_at_open,   \* the prices the feed showed at each market's start_date
    captured_at,    \* when each market's strike was set
    untracked_at,   \* when each market was removed from the tracker
    last_pass,      \* the latest pass: its time, the price it read and the
                    \* markets the finder returned
    \* the expiry sweep of _discover_and_clean, statement by statement
    sweep,          \* where the sweep is, and its local variables
    lifetime_skips, \* the skip log of each market as the sweep found it
    \* the main-loop thread, call by call
    main,           \* where _main_loop is, the Opportunities it still has to
                    \* execute and whether this pass caught an exception
    \* the WebSocket threads of the odds feed and of the price feed
    feed,           \* per feed: _running, _ws, its connection, where its
                    \* _ws_loop thread is and how far stop() has got
    \* the two JSON files as found on disk
    files,          \* per file: what kind of content it holds and, for a JSON
                    \* array, its records
    last_save,      \* the last append to a file: what it found, what it left
                    \* and whether it raised
    \* the price feed's buffers for one asset
    history,        \* _history[asset]: (timestamp, price) in arrival order
    seen_ts,        \* _seen_ts[asset]
    \* TightnessTracker's maps and the snapshot logs of its MarketTrackers
    tracker_ids,    \* the keys of _trackers
    token_to_market,\* _token_to_market
    current_prices, \* _current_prices
    snapshots,      \* _snapshots of each market's MarketTracker
    received,       \* the best asks delivered for each market's tokens since
                    \* the market was added, in order
    sub,            \* TightnessTracker's thread and its connection
    \* the locks of the strategy
    lock_owner,     \* for each lock, the thread inside its "with" block
    lock_todo,      \* for each thread, the lock steps left of its operation
    \* one function of the strategy called on its own
    probe           \* the latest call: its arguments and what it returned

execVars == <<daily_loss, daily_reset, killed, ledger, orders, last_call, ncalls>>

coordVars ==
    <<running, pc, last_discovery, shadow, trackers, strike_price, price,
      volatility, fired, skipped_signals, opp_count, exec_count, exec_result, tick>>

lockVars == <<lock_holder, caller, nsaved>>

\* the variables of the close-up views below; the strategy as a whole and the
\* executor harness leave them as they start
discVars == <<spot_at_open, captured_at, untracked_at, last_pass>>

sweepVars == <<sweep, lifetime_skips>>

fileVars == <<files, last_save>>
bufVars == <<history, seen_ts>>
oddsVars == <<tracker_ids, token_to_market, current_prices, snapshots, received>>
nestVars == <<lock_owner, lock_todo>>
notNest == <<lockVars, discVars, sweepVars, main, feed, fileVars, probe, bufVars, oddsVars, sub>>
auxVars == <<lockVars, discVars, sweepVars, main, feed, fileVars, probe, bufVars, oddsVars, sub, nestVars>>
notLock == <<discVars, sweepVars, main, feed, fileVars, probe, bufVars, oddsVars, sub, nestVars>>
notDisc == <<lockVars, sweepVars, main, feed, fileVars, probe, bufVars, oddsVars, sub, nestVars>>
notSweep == <<lockVars, discVars, main, feed, fileVars, probe, bufVars, oddsVars, sub, nestVars>>
notMain == <<lockVars, discVars, sweepVars, feed, fileVars, probe, bufVars, oddsVars, sub, nestVars>>
notFeed == <<lockVars, discVars, sweepVars, main, fileVars, probe, bufVars, oddsVars, sub, nestVars>>
notFiles == <<lockVars, discVars, sweepVars, main, feed, probe, bufVars, oddsVars, sub, nestVars>>
notProbe == <<lockVars, discVars, sweepVars, main, feed, fileVars, bufVars, oddsVars, sub, nestVars>>
notOdds == <<lockVars, discVars, sweepVars, main, feed, fileVars, probe, bufVars, nestVars>>
notBuf == <<lockVars, discVars, sweepVars, main, feed, fileVars, probe, oddsVars, sub, nestVars>>

vars == <<now, dry_run, execVars, twin, coordVars, auxVars>>

Today(t) == t \div DayLen

-----------------------------------------------------------------------------
(* TightMarketOpportunity as check_signals builds it *)

Opportunity(m, yes_ask, no_ask, current_price, strike) ==
    LET cheap_side == IF current_price > strike THEN "NO" ELSE "YES"
    IN  [ condition_id |-> m,
          token_ids |-> token_ids(m),
          yes_ask |-> yes_ask,
          no_ask |-> no_ask,
          buy_side |-> cheap_side,
          buy_token_id |-> IF cheap_side = "NO" THEN NoToken(m) ELSE YesToken(m),
          buy_ask |-> IF cheap_side = "NO" THEN no_ask ELSE yes_ask,
          amount |-> tmc_max_investment,
          total_cost |-> tmc_max_investment,
          strike_price |-> strike,
          current_crypto_price |-> current_price ]

\* opp.amount_per_side: read by the executor, not a field the engine sets
amount_per_side(opp) == opp.amount

-----------------------------------------------------------------------------
(* TightMarketCryptoExecutor *)

ExecState ==
    [ daily_loss |-> daily_loss, daily_reset |-> daily_reset,
      killed |-> killed, ledger |-> ledger, orders |-> orders ]

TradeResult(success, order_ids, cost, error) ==
    [ success |-> success, order_ids |-> order_ids, cost |-> cost, error |-> error ]

MaybeResetDaily_keeps_loss(st, today) ==
    IF today # st.daily_reset
    THEN [st EXCEPT !.daily_reset = today, !.killed = FALSE]
    ELSE st
MaybeResetDaily(st, today) ==
    IF today # st.daily_reset
    THEN [st EXCEPT !.daily_loss = 0, !.daily_reset = today, !.killed = FALSE]
    ELSE st

LossLimitReached_strict(loss) == loss > tmc_max_daily_loss
LossLimitReached(loss) == loss >= tmc_max_daily_loss

FailureCharge_full(total_cost) == total_cost
FailureCharge(total_cost) == total_cost \div 2

LedgerEntry(opp, res, dry) ==
    [ condition_id |-> opp.condition_id,
      yes_ask |-> opp.yes_ask,
      no_ask |-> opp.no_ask,
      amount_per_side |-> amount_per_side(opp),
      total_cost |-> opp.total_cost,
      strike_price |-> opp.strike_price,
      current_crypto_price |-> opp.current_crypto_price,
      success |-> res.success,
      order_ids |-> res.order_ids,
      cost |-> res.cost,
      error |-> res.error,
      dry_run |-> dry,
      outcome |-> None,
      final_crypto_price |-> None,
      payout |-> None,
      net_return |-> None,
      return_pct |-> None ]

SaveTrade_twice(st, opp, res, dry) ==
    [st EXCEPT !.ledger = Append(Append(@, LedgerEntry(opp, res, dry)),
                                 LedgerEntry(opp, res, dry))]
SaveTrade(st, opp, res, dry) ==
    [st EXCEPT !.ledger = Append(@, LedgerEntry(opp, res, dry))]

\* The venue's answer to the two order placements of one execution
VenueOutcomes == {"ok", "yes_fails", "no_fails"}

Order(token, amount) == [token_id |-> token, amount |-> amount, side |-> "BUY"]

\* an order id is the position of the order in the venue's log
ExecuteLive(st, opp, venue) ==
    LET n == Len(st.orders)
        yes_order == Order(opp.token_ids[1], amount_per_side(opp))
        no_order == Order(opp.token_ids[2], amount_per_side(opp))
    IN  IF venue = "ok"
        THEN LET res == TradeResult(TRUE, <<n + 1, n + 2>>, opp.total_cost, None)
                 st1 == [st EXCEPT !.orders = @ \o <<yes_order, no_order>>,
                                   !.daily_loss = @ + opp.total_cost]
             IN  [st |-> SaveTrade(st1, opp, res, FALSE), res |-> res]
        ELSE LET posted == IF venue = "no_fails" THEN <<yes_order>> ELSE <<>>
                 ids == IF venue = "no_fails" THEN <<n + 1>> ELSE <<>>
                 res == TradeResult(FALSE, ids, 0, Some("order error"))
                 st1 == [st EXCEPT !.orders = @ \o posted,
                                   !.daily_loss = @ + FailureCharge(opp.total_cost)]
             IN  [st |-> SaveTrade(st1, opp, res, FALSE), res |-> res]

ExecuteInner_dry_charges(st, opp, dry, today, venue) ==
    IF st.killed
    THEN [st |-> st,
          res |-> TradeResult(FALSE, <<>>, 0,
                              Some("Kill switch activated - max daily loss reached"))]
    ELSE LET st1 == MaybeResetDaily(st, today)
         IN  IF LossLimitReached(st1.daily_loss)
             THEN [st |-> [st1 EXCEPT !.killed = TRUE],
                   res |-> TradeResult(FALSE, <<>>, 0, Some("Kill switch - max daily loss"))]
             ELSE IF dry
                  THEN LET res == TradeResult(TRUE, <<>>, opp.total_cost, None)
                           st2 == [st1 EXCEPT !.daily_loss = @ + opp.total_cost]
                       IN  [st |-> SaveTrade(st2, opp, res, TRUE), res |-> res]
                  ELSE ExecuteLive(st1, opp, venue)
ExecuteInner(st, opp, dry, today, venue) ==
    IF st.killed
    THEN [st |-> st,
          res |-> TradeResult(FALSE, <<>>, 0,
                              Some("Kill switch activated - max daily loss reached"))]
    ELSE LET st1 == MaybeResetDaily(st, today)
         IN  IF LossLimitReached(st1.daily_loss)
             THEN [st |-> [st1 EXCEPT !.killed = TRUE],
                   res |-> TradeResult(FALSE, <<>>, 0, Some("Kill switch - max daily loss"))]
             ELSE IF dry
                  THEN LET res == TradeResult(TRUE, <<>>, opp.total_cost, None)
                       IN  [st |-> SaveTrade(st1, opp, res, TRUE), res |-> res]
                  ELSE ExecuteLive(st1, opp, venue)

\* amount / ask as an exact fraction <<numerator, denominator>> (asks are in
\* cents, so the numerator is scaled by 100)
Payout(stake, ask) == <<stake * 100, ask>>
NetReturn(stake, ask, total_cost) == <<stake * 100 - total_cost * ask, ask>>
ReturnPct(stake, ask, total_cost) ==
    IF total_cost > 0
    THEN <<(stake * 100 - total_cost * ask) * 100, ask * total_cost>>
    ELSE <<0, 1>>

AlreadyFilled_never(entry) == FALSE
AlreadyFilled(entry) == entry.outcome # None

ResolveEntry(entry, condition_id, outcome, final_price) ==
    IF entry.condition_id # condition_id THEN entry
    ELSE IF AlreadyFilled(entry) THEN entry
    ELSE IF (outcome = "YES" /\ entry.yes_ask > 0) \/ (outcome = "NO" /\ entry.no_ask > 0)
    THEN LET ask == IF outcome = "YES" THEN entry.yes_ask ELSE entry.no_ask
         IN  [entry EXCEPT
                !.outcome = Some(outcome),
                !.payout = Some(Payout(entry.amount_per_side, ask)),
                !.net_return = Some(NetReturn(entry.amount_per_side, ask, entry.total_cost)),
                !.return_pct = Some(ReturnPct(entry.amount_per_side, ask, entry.total_cost)),
                !.final_crypto_price = IF final_price # None THEN final_price ELSE @]
    ELSE entry

UpdateOutcomesForCondition(rows, condition_id, outcome, final_price) ==
    [i \in 1..Len(rows) |-> ResolveEntry(rows[i], condition_id, outcome, final_price)]


NoCall == [kind |-> "none"]

\* an execute() call: its arguments, the executor as it found it, its result
CallRecord(st, opp, venue, today, res) ==
    [ kind |-> "execute", opp |-> opp, venue |-> venue, today |-> today,
      pre_loss |-> st.daily_loss, pre_killed |-> st.killed,
      pre_reset |-> st.daily_reset, pre_rows |-> Len(st.ledger),
      pre_orders |-> Len(st.orders), res |-> res ]

\* TightMarketCryptoExecutor.__init__ for the second executor
NoTwin ==
    [ st |-> [ daily_loss |-> 0, daily_reset |-> Today(0), killed |-> FALSE,
               ledger |-> <<>>, orders |-> <<>> ],
      res |-> None ]

-----------------------------------------------------------------------------
(* The state one loop iteration works on, as a record *)

World ==
    [ daily_loss |-> daily_loss, daily_reset |-> daily_reset, killed |-> killed,
      ledger |-> ledger, orders |-> orders, last_call |-> last_call,
      ncalls |-> ncalls, shadow |-> shadow, trackers |-> trackers,
      strike_price |-> strike_price, fired |-> fired,
      skipped_signals |-> skipped_signals, opp_count |-> opp_count,
      exec_count |-> exec_count, exec_result |-> exec_result, tick |-> tick ]

SeqToSet(q) == {q[i] : i \in 1..Len(q)}
Remove(q, x) == SelectSeq(q, LAMBDA y : y # x)
Max(a, b) == IF a > b THEN a ELSE b
Min(a, b) == IF a < b THEN a ELSE b

\* all orderings of a finite set, as sequences
RECURSIVE Orderings(_)
Orderings(S) ==
    IF S = {} THEN {<<>>}
    ELSE UNION { { <<x>> \o q : q \in Orderings(S \ {x}) } : x \in S }

-----------------------------------------------------------------------------
(* TightnessTracker *)

tracked_condition_ids(w) == SeqToSet(w.trackers)

add_market(w, m) ==
    IF m \in SeqToSet(w.trackers) THEN w
    ELSE [w EXCEPT !.trackers = Append(@, m), !.strike_price[m] = None]

remove_market(w, m) ==
    [w EXCEPT !.trackers = Remove(@, m), !.strike_price[m] = None]

\* MarketTracker.get_profile: seconds_remaining
seconds_remaining_late(m, t) == Max(0, end_date(m) - t + tmc_execution_window)
seconds_remaining(m, t) == Max(0, end_date(m) - t)

-----------------------------------------------------------------------------
(* SignalEngine *)

\* what one evaluation reads from outside the engine: the two best asks of
\* the order book, the price momentum of the last seconds and the odds
\* snapshots of the market's profile
SnapLogs ==
    { <<>>,
      << [yes_price |-> 90, no_price |-> 10], [yes_price |-> 90, no_price |-> 10],
         [yes_price |-> 80, no_price |-> 12], [yes_price |-> 80, no_price |-> 12] >>,
      << [yes_price |-> 10, no_price |-> 90], [yes_price |-> 10, no_price |-> 90],
         [yes_price |-> 14, no_price |-> 80], [yes_price |-> 14, no_price |-> 80] >> }

AskPairs == { <<None, Some(70)>>, <<Some(30), Some(70)>>, <<Some(70), Some(30)>> }

Readings ==
    [ asks : AskPairs, momentum : {None, Some(2), Some(0 - 2)}, snapshots : SnapLogs ]

NoReading == [asks |-> <<None, None>>, momentum |-> None, snapshots |-> <<>>]

RECURSIVE SumYes(_, _, _)
SumYes(snaps, from, to) ==
    IF from > to THEN 0 ELSE snaps[from].yes_price + SumYes(snaps, from + 1, to)

\* _has_odds_bypass; the 0.01 shift is one cent: late/n - early/n < -1
HasOddsBypass(snaps, current_price, strike) ==
    IF Len(snaps) < 3 THEN FALSE
    ELSE LET latest == snaps[Len(snaps)]
             cheap_price == IF current_price > strike
                            THEN latest.no_price ELSE latest.yes_price
             n == Min(5, Len(snaps) \div 2)
             early == SumYes(snaps, 1, n)
             late == SumYes(snaps, Len(snaps) - n + 1, Len(snaps))
         IN  IF cheap_price > tmc_odds_bypass_max_ask THEN FALSE
             ELSE IF n < 2 THEN FALSE
             ELSE IF current_price > strike
                  THEN late - early < 0 - n
                  ELSE late - early > n

IsConfirmingMomentum(momentum, current_price, strike) ==
    IF current_price > strike
    THEN momentum > tmc_momentum_threshold
    ELSE momentum < 0 - tmc_momentum_threshold

Abs(x) == IF x < 0 THEN 0 - x ELSE x

\* get_expected_move is volatility * price * sqrt(remaining) with the
\* volatility in half percents; "distance / expected_move <= ratio" is compared
\* after squaring both sides, which keeps the arithmetic in the integers
ExpectedMovePositive(vol, px, remaining) == vol > 0 /\ px > 0 /\ remaining > 0

RatioAtMost(distance, vol, px, remaining, factor, ratio) ==
    distance * distance * 40000
        <= ratio * ratio * factor * factor * vol * vol * px * px * remaining

AlreadyFired_never(w, m) == FALSE
AlreadyFired(w, m) == m \in w.fired

AddFired_forget(w, m) == w
AddFired(w, m) == [w EXCEPT !.fired = @ \cup {m}]

\* _build_context and _record_skip: the entry, without its price figures
SkipEntry(remaining, in_exec, would_have_fired, skip_reason) ==
    [ remaining |-> remaining,
      in_execution_window |-> in_exec,
      would_have_fired |-> would_have_fired,
      skip_reason |-> skip_reason ]

\* the outcome of one pass of the loop body of check_signals for market m:
\* "continue" (nothing recorded), "skip" (one entry recorded) or "fire"
Continue(gate) == [kind |-> "continue", gate |-> gate]
Skip(gate, entry) == [kind |-> "skip", gate |-> gate, entry |-> entry]
Fire(opp) == [kind |-> "fire", gate |-> "fired", opp |-> opp]

\* the gates up to the execution window: they read the engine, the tracker
\* and the price feed only
in_execution_window_always(remaining, execution_window) == TRUE
in_execution_window(remaining, execution_window) == remaining <= execution_window

\* the loop body under a configuration of the three windows
EvaluateConfigured(cfg, w, m, t, px, vol, rd) ==
    LET remaining == seconds_remaining(m, t)
    IN
    IF AlreadyFired(w, m) THEN Continue("already_fired")
    ELSE IF w.strike_price[m] = None THEN Continue("no_strike")
    ELSE IF remaining <= 0 \/ remaining > cfg.tmc_entry_window
         THEN Continue("outside_entry_window")
    ELSE IF remaining < cfg.tmc_min_seconds_remaining THEN Continue("min_seconds_remaining")
    \* get_expected_move is None when the volatility or the price is
    ELSE IF px = None \/ vol = None THEN Continue("no_price_data")
    ELSE
    LET current_price == px[1]
        strike == w.strike_price[m][1]
        distance == Abs(current_price - strike)
        in_exec == in_execution_window(remaining, cfg.tmc_execution_window)
        factor == IF in_exec THEN tmc_volatility_boost_factor ELSE 1
        signal_passes ==
            /\ ExpectedMovePositive(vol[1], current_price, remaining)
            /\ RatioAtMost(distance, vol[1], current_price, remaining, factor,
                           tmc_volatility_multiplier)
        raw_ratio_too_high ==
            \/ ~ExpectedMovePositive(vol[1], current_price, remaining)
            \/ ~RatioAtMost(distance, vol[1], current_price, remaining, 1,
                            tmc_max_distance_ratio)
        entry(whf, reason) ==
            SkipEntry(remaining, in_exec, whf, reason)
        yes_ask == rd.asks[1]
        no_ask == rd.asks[2]
    IN
    IF vol[1] < tmc_min_volatility /\ ~signal_passes THEN Continue("low_volatility")
    ELSE IF ~signal_passes THEN Skip("signal", entry(FALSE, ""))
    ELSE IF ~in_exec THEN Skip("pre_signal", entry(TRUE, ""))
    ELSE IF raw_ratio_too_high /\ ~HasOddsBypass(rd.snapshots, current_price, strike)
         THEN Skip("distance_ratio", entry(FALSE, "distance_ratio_too_high"))
    ELSE IF /\ tmc_block_confirming_momentum
            /\ rd.momentum # None
            /\ IsConfirmingMomentum(rd.momentum[1], current_price, strike)
         THEN Skip("momentum", entry(FALSE, "confirming_momentum"))
    ELSE IF yes_ask = None \/ no_ask = None
         THEN Skip("asks", entry(FALSE, "no_valid_asks"))
    ELSE IF yes_ask[1] <= 0 \/ no_ask[1] <= 0
         THEN Skip("asks", entry(FALSE, "no_valid_asks"))
    ELSE
    LET cheap_side_ask == IF current_price > strike THEN no_ask[1] ELSE yes_ask[1]
    IN
    IF tmc_max_entry_ask > 0 /\ cheap_side_ask > tmc_max_entry_ask
    THEN Skip("entry_ask", entry(FALSE, "cheap_side_too_expensive"))
    ELSE Fire(Opportunity(m, yes_ask[1], no_ask[1], current_price, strike))

\* self.config as the other specifications have it
WindowConfig ==
    [ tmc_entry_window |-> tmc_entry_window,
      tmc_execution_window |-> tmc_execution_window,
      tmc_min_seconds_remaining |-> tmc_min_seconds_remaining ]

Evaluate(w, m, t, px, vol, rd) == EvaluateConfigured(WindowConfig, w, m, t, px, vol, rd)

\* the order book, the momentum and the snapshots are read only once the
\* evaluation is in the execution window with a passing signal
ReadingsFor(w, m, t, px, vol) ==
    IF Evaluate(w, m, t, px, vol, NoReading).gate \in {"distance_ratio", "asks"}
    THEN Readings ELSE {NoReading}

record_skip(w, m, entry) ==
    [w EXCEPT !.skipped_signals[m] = Append(@, entry)]

get_skipped_signals(w, m) == w.skipped_signals[m]

mark_expired(w, m) ==
    [w EXCEPT !.fired = @ \ {m}, !.skipped_signals[m] = <<>>]

\* one pass of the loop body: the engine after it, and the Opportunity if any
EvaluateStep(w, m, t, px, vol, rd) ==
    LET ev == Evaluate(w, m, t, px, vol, rd)
        seen == [m |-> m, gate |-> ev.gate, fired |-> ev.kind = "fire",
                 recorded |-> IF ev.kind = "skip" THEN 1 ELSE 0]
        w1 == [w EXCEPT !.tick = Append(@, seen)]
    IN  IF ev.kind = "skip" THEN [w |-> record_skip(w1, m, ev.entry), opps |-> <<>>]
        ELSE IF ev.kind = "fire"
        THEN [w |-> [AddFired(w1, m) EXCEPT !.opp_count[m] = @ + 1], opps |-> <<ev.opp>>]
        ELSE [w |-> w1, opps |-> <<>>]

\* check_signals over the profiles from position i on: every way it can end
RECURSIVE CheckFrom(_, _, _, _, _, _, _)
CheckFrom(w, profiles, i, opps, t, px, vol) ==
    IF i > Len(profiles) THEN { [w |-> w, opps |-> opps] }
    ELSE UNION { LET r == EvaluateStep(w, profiles[i], t, px, vol, rd)
                 IN  CheckFrom(r.w, profiles, i + 1, opps \o r.opps, t, px, vol)
                 : rd \in ReadingsFor(w, profiles[i], t, px, vol) }

check_signals(w, t, px, vol) ==
    CheckFrom([w EXCEPT !.tick = <<>>],
              w.trackers, 1, <<>>, t, px, vol)

-----------------------------------------------------------------------------
(* TightMarketCryptoCoordinator *)

\* the condition ids that have a ledger row
get_traded_condition_ids(w) == {w.ledger[i].condition_id : i \in 1..Len(w.ledger)}

ShadowEntry(m, strike, final_price, outcome, was_traded, skipped) ==
    [ condition_id |-> m, strike_price |-> strike, final_price |-> final_price,
      outcome |-> outcome, was_traded |-> was_traded, skipped_signals |-> skipped ]

\* get_price_at: a buffered price near the instant or the latest price; None
\* only when no price has been received
PricesAt_unavailable(px) == {None}
PricesAt(px) == IF px = None THEN {None} ELSE {Some(v) : v \in PriceVals}

ResolvedOutcome_at_or_above(final_price, strike) ==
    IF final_price >= strike THEN "YES" ELSE "NO"
ResolvedOutcome(final_price, strike) == IF final_price > strike THEN "YES" ELSE "NO"

\* the body of the expiry loop for one market past its end date
ExpireMarket(w, m, price_at, traded_cids) ==
    LET skipped == get_skipped_signals(w, m)
        strike == w.strike_price[m]
        w1 == mark_expired(remove_market(w, m), m)
        final_price == IF strike # None THEN price_at ELSE None
        outcome == IF final_price # None
                   THEN Some(ResolvedOutcome(final_price[1], strike[1])) ELSE None
        w2 == IF outcome # None
              THEN [w1 EXCEPT !.ledger =
                       UpdateOutcomesForCondition(@, m, outcome[1], final_price)]
              ELSE w1
    IN  [w2 EXCEPT !.shadow =
            Append(@, ShadowEntry(m, strike, final_price, outcome,
                                  m \in traded_cids, skipped))]

RECURSIVE ExpireFrom(_, _, _, _, _)
ExpireFrom(w, order, i, px, traded_cids) ==
    IF i > Len(order) THEN {w}
    ELSE UNION { ExpireFrom(ExpireMarket(w, order[i], pa, traded_cids),
                            order, i + 1, px, traded_cids)
                 : pa \in IF w.strike_price[order[i]] # None
                          THEN PricesAt(px) ELSE {None} }

\* find_upcoming_markets returns markets whose expiry is 60 s to 1200 s away
Upcoming_any(t) == {m \in Markets : end_date(m) - t <= MaxLead}
Upcoming(t) == {m \in Markets : end_date(m) - t >= MinLead /\ end_date(m) - t <= MaxLead}

RECURSIVE AddNew(_, _, _, _)
AddNew(w, markets, i, already_tracked) ==
    IF i > Len(markets) THEN w
    ELSE AddNew(IF markets[i] \notin already_tracked THEN add_market(w, markets[i]) ELSE w,
                markets, i + 1, already_tracked)

\* "if not market or market.strike_price is not None: continue"
NeedsStrike_always(w, m) == TRUE
NeedsStrike(w, m) == w.strike_price[m] = None

RECURSIVE CaptureFrom(_, _, _, _, _)
CaptureFrom(w, cids, i, t, px) ==
    IF i > Len(cids) THEN w
    ELSE LET m == cids[i]
             captured == /\ NeedsStrike(w, m)
                         /\ start_date(m) # None
                         /\ start_date(m)[1] <= t
                         /\ px # None
         IN  CaptureFrom(IF captured THEN [w EXCEPT !.strike_price[m] = px] ELSE w,
                         cids, i + 1, t, px)

\* "Capture strike prices for markets whose window has opened"
CaptureStrikes(w, t, px) == CaptureFrom(w, w.trackers, 1, t, px)

\* what find_upcoming_markets can return at time t
FoundLists(t) == UNION { Orderings(S) : S \in SUBSET Upcoming(t) }

\* _discover_and_clean when the finder returns the list found: every way it
\* can end
discover_found(w, t, px, found) ==
    LET traded_cids == get_traded_condition_ids(w)
        expired == {m \in tracked_condition_ids(w) : end_date(m) < t}
        swept == UNION { ExpireFrom(w, order, 1, px, traded_cids)
                         : order \in Orderings(expired) }
    IN  { CaptureStrikes(AddNew(w1, found, 1, tracked_condition_ids(w1)), t, px)
          : w1 \in swept }

\* _discover_and_clean: every way it can end
discover_and_clean(w, t, px) ==
    UNION { discover_found(w, t, px, found) : found \in FoundLists(t) }

ResultKind(res) ==
    IF res.success THEN "success"
    ELSE IF res.error \in { Some("Kill switch activated - max daily loss reached"),
                            Some("Kill switch - max daily loss") }
         THEN "rejected" ELSE "order_failed"

\* self._executor.execute(opp) as the loop calls it
ExecuteOpp(w, opp, t, venue) ==
    LET st == [ daily_loss |-> w.daily_loss, daily_reset |-> w.daily_reset,
                killed |-> w.killed, ledger |-> w.ledger, orders |-> w.orders ]
        out == ExecuteInner(st, opp, dry_run, Today(t), venue)
        m == opp.condition_id
    IN  [w EXCEPT !.daily_loss = out.st.daily_loss,
                  !.daily_reset = out.st.daily_reset,
                  !.killed = out.st.killed,
                  !.ledger = out.st.ledger,
                  !.orders = out.st.orders,
                  !.last_call = CallRecord(st, opp, venue, Today(t), out.res),
                  !.ncalls = @ + 1,
                  !.exec_count[m] = @ + 1,
                  !.exec_result[m] = Some(ResultKind(out.res))]

RECURSIVE ExecuteFrom(_, _, _, _)
ExecuteFrom(w, opps, i, t) ==
    IF i > Len(opps) THEN {w}
    ELSE UNION { ExecuteFrom(ExecuteOpp(w, opps[i], t, venue), opps, i + 1, t)
                 : venue \in IF dry_run THEN {"ok"} ELSE VenueOutcomes }

\* one pass of the while loop of _main_loop: every way it can end (stop()
\* is taken to arrive between passes; the break on a cleared flag is in the
\* call-by-call view of the loop)
Iteration(w, t, discover, px, vol) ==
    UNION { UNION { ExecuteFrom(r.w, r.opps, 1, t) : r \in check_signals(w1, t, px, vol) }
            : w1 \in IF discover THEN discover_and_clean(w, t, px) ELSE {w} }

Install(w) ==
    /\ daily_loss' = w.daily_loss
    /\ daily_reset' = w.daily_reset
    /\ killed' = w.killed
    /\ ledger' = w.ledger
    /\ orders' = w.orders
    /\ last_call' = w.last_call
    /\ ncalls' = w.ncalls
    /\ shadow' = w.shadow
    /\ trackers' = w.trackers
    /\ strike_price' = w.strike_price
    /\ fired' = w.fired
    /\ skipped_signals' = w.skipped_signals
    /\ opp_count' = w.opp_count
    /\ exec_count' = w.exec_count
    /\ exec_result' = w.exec_result
    /\ tick' = w.tick

CoordInit ==
    /\ running = FALSE
    /\ pc = "new"
    /\ last_discovery = 0 - tmc_discovery_interval
    /\ shadow = <<>>
    /\ trackers = <<>>
    /\ strike_price = [m \in Markets |-> None]
    /\ price = None
    /\ volatility = None
    /\ fired = {}
    /\ skipped_signals = [m \in Markets |-> <<>>]
    /\ opp_count = [m \in Markets |-> 0]
    /\ exec_count = [m \in Markets |-> 0]
    /\ exec_result = [m \in Markets |-> None]
    /\ tick = <<>>

-----------------------------------------------------------------------------
(* The threads that call one executor, before any call *)

Callers == {"t1", "t2"}

IdleCaller == [pc |-> "idle", rows |-> <<>>, trades |-> <<>>, arg |-> None]

LockInit ==
    /\ lock_holder = None
    /\ caller = [t \in Callers |-> IdleCaller]
    /\ nsaved = 0

-----------------------------------------------------------------------------
(* What the observer of the discovery passes has seen, before any pass *)

NoPass == [t |-> 0 - 1, price |-> None, found |-> {}, tracked |-> {}]

DiscInit ==
    /\ spot_at_open = [m \in Markets |-> {}]
    /\ captured_at = [m \in Markets |-> None]
    /\ untracked_at = [m \in Markets |-> <<>>]
    /\ last_pass = NoPass

-----------------------------------------------------------------------------
(* The expiry sweep, before it runs *)

IdleSweep ==
    [ pc |-> "idle", todo |-> <<>>, traded_cids |-> {}, cid |-> None,
      skipped |-> <<>>, strike |-> None, final_price |-> None, outcome |-> None,
      steps |-> <<>> ]

NoSweep ==
    /\ sweep = IdleSweep
    /\ lifetime_skips = [m \in Markets |-> None]

\* the main-loop thread before start()
IdleMain == [pc |-> "new", todo |-> 0, caught |-> FALSE]

\* TightnessTracker ("odds") and the price feed ("price") before start().
\* The odds feed subscribes to the tokens of the tracked markets and has
\* none at first; the price feed subscribes to a fixed list of symbols.
Feeds == {"odds", "price"}

IdleFeed(f) ==
    [ running |-> FALSE, ws |-> FALSE, open |-> FALSE, pc |-> "off",
      tokens |-> (f = "price"), stop_pc |-> "no" ]

FeedInit == feed = [f \in Feeds |-> IdleFeed(f)]

\* TRADES_FILE and SHADOW_FILE do not exist before the first write.
FileNames == {"TRADES_FILE", "SHADOW_FILE"}

MissingFile == [kind |-> "missing", rows |-> <<>>]

FilesInit ==
    /\ files = [f \in FileNames |-> MissingFile]
    /\ last_save = None

\* ChainlinkPriceFeed.__init__: nothing buffered, nothing seen
BufInit == history = <<>> /\ seen_ts = {}

\* TightnessTracker's thread before start(): "tokens" is the local list of
\* _ws_loop, "ws" says that self._ws holds a WebSocketApp, "open" that its
\* connection is up and "subscribed" what _on_open sent on it.  A market
\* stands for its two tokens.
IdleSub ==
    [ running |-> FALSE, pc |-> "off", tokens |-> {}, ws |-> FALSE,
      open |-> FALSE, subscribed |-> {} ]

\* TightnessTracker.__init__
OddsInit ==
    /\ sub = IdleSub
    /\ tracker_ids = {}
    /\ token_to_market = <<>>
    /\ current_prices = <<>>
    /\ snapshots = [m \in Markets |-> <<>>]
    /\ received = [m \in Markets |-> <<>>]

\* the three threads of the strategy and the locks claims are made about:
\* TightnessTracker._lock, MarketTracker._lock of each market, the price
\* feed's _lock and TightMarketCryptoExecutor._lock
Threads == {"TMC-Main", "TMC-WebSocket", "Chainlink-WS"}

\* a lock is named by its class and by the object that owns it
TrackerLock == <<"TightnessTracker", "tracker">>
SnapshotLock(m) == <<"MarketTracker", m>>
FeedLock == <<"PriceFeed", "feed">>
ExecutorLock == <<"Executor", "executor">>

LockNames ==
    {TrackerLock, FeedLock, ExecutorLock} \cup {SnapshotLock(m) : m \in Markets}

NestInit ==
    /\ lock_owner = [l \in LockNames |-> None]
    /\ lock_todo = [t \in Threads |-> <<>>]

AuxInit ==
    /\ NestInit
    /\ OddsInit
    /\ LockInit /\ DiscInit /\ NoSweep /\ main = IdleMain /\ FeedInit /\ FilesInit
    /\ probe = None
    /\ BufInit

-----------------------------------------------------------------------------
(* The executor on its own: any caller, any order of calls *)

\* one Opportunity that buys NO (price above the strike) and one that buys YES
OppInputs ==
    { Opportunity("m1", 30, 70, 105, 100), Opportunity("m2", 70, 30, 95, 100) }

ExecInit ==
    /\ now = 0
    /\ dry_run \in BOOLEAN
    /\ daily_loss = 0
    /\ daily_reset = Today(0)
    /\ killed = FALSE
    /\ ledger = <<>>
    /\ orders = <<>>
    /\ last_call = NoCall
    /\ ncalls = 0
    /\ twin = NoTwin
    /\ CoordInit
    /\ AuxInit

Execute(opp, venue) ==
    LET out == ExecuteInner(ExecState, opp, dry_run, Today(now), venue)
    IN  /\ daily_loss' = out.st.daily_loss
        /\ daily_reset' = out.st.daily_reset
        /\ killed' = out.st.killed
        /\ ledger' = out.st.ledger
        /\ orders' = out.st.orders
        /\ ncalls' = ncalls + 1
        /\ last_call' = CallRecord(ExecState, opp, venue, Today(now), out.res)

ExecCall ==
    /\ ncalls < MaxCalls
    /\ \E opp \in OppInputs, venue \in VenueOutcomes : Execute(opp, venue)
    /\ UNCHANGED <<now, dry_run, auxVars, twin, coordVars>>

ResolveCall ==
    /\ \E m \in Markets, outcome \in {"YES", "NO"}, fp \in {Some(95), Some(105)} :
          /\ (outcome = "YES") = (fp[1] > 100)
          /\ ledger' = UpdateOutcomesForCondition(ledger, m, outcome, fp)
          /\ last_call' = [kind |-> "resolve", condition_id |-> m, outcome |-> outcome,
                           repeat |-> (last_call.kind = "resolve"
                                       /\ last_call.condition_id = m)]
    /\ UNCHANGED <<now, dry_run, auxVars, daily_loss, daily_reset, killed, orders, ncalls, twin>>
    /\ UNCHANGED coordVars

\* the executor reads the clock for its UTC date only: time passes midnight
ClockAdvance ==
    /\ now < DayLen
    /\ now' = (Today(now) + 1) * DayLen
    /\ UNCHANGED <<dry_run, auxVars, execVars, twin, coordVars>>

ExecNext == ExecCall \/ ResolveCall \/ ClockAdvance

SpecExec == ExecInit /\ [][ExecNext]_vars

-----------------------------------------------------------------------------
(* One executor called from several threads.  execute() runs under _lock;  *)
(* update_outcomes_for_condition() takes no lock.  Each access to          *)
(* TRADES_FILE (read_text, write_text) is one step.                        *)

\* execute(): "with self._lock", entered when no caller holds the lock
LockAcquire(t) ==
    /\ caller[t].pc = "idle"
    /\ ncalls < MaxCalls
    /\ lock_holder = None
    /\ lock_holder' = Some(t)
    /\ caller' = [caller EXCEPT ![t].pc = "inner"]
    /\ ncalls' = ncalls + 1
    /\ UNCHANGED <<now, dry_run, notLock, daily_loss, daily_reset, killed, ledger, orders,
                   last_call, twin, coordVars, nsaved>>

\* _execute_inner up to its call of _save_trade: the kill switch, the orders
\* and the counter.  Run on an empty ledger, ExecuteInner leaves in it the
\* row that _save_trade is about to append, if any.
LockedDecide(t) ==
    /\ caller[t].pc = "inner"
    /\ \E opp \in OppInputs, venue \in VenueOutcomes :
          LET out == ExecuteInner([ExecState EXCEPT !.ledger = <<>>], opp, dry_run,
                                  Today(now), venue)
          IN  /\ daily_loss' = out.st.daily_loss
              /\ daily_reset' = out.st.daily_reset
              /\ killed' = out.st.killed
              /\ orders' = out.st.orders
              /\ IF out.st.ledger = <<>>
                 THEN /\ caller' = [caller EXCEPT ![t] = IdleCaller]
                      /\ lock_holder' = None
                 ELSE /\ caller' = [caller EXCEPT ![t].pc = "save_read",
                                                  ![t].rows = out.st.ledger]
                      /\ UNCHANGED lock_holder
    /\ UNCHANGED <<now, dry_run, notLock, ledger, last_call, ncalls, twin, coordVars, nsaved>>

\* _save_trade: trades = json.loads(TRADES_FILE.read_text())
SaveRead(t) ==
    /\ caller[t].pc = "save_read"
    /\ caller' = [caller EXCEPT ![t].pc = "save_write", ![t].trades = ledger]
    /\ UNCHANGED <<now, dry_run, notLock, execVars, twin, coordVars, lock_holder, nsaved>>

\* _save_trade: trades.append(entry); TRADES_FILE.write_text(...); the lock is
\* released on the way out of execute()
SaveWrite(t) ==
    /\ caller[t].pc = "save_write"
    /\ ledger' = caller[t].trades \o caller[t].rows
    /\ nsaved' = nsaved + Len(caller[t].rows)
    /\ caller' = [caller EXCEPT ![t] = IdleCaller]
    /\ lock_holder' = None
    /\ UNCHANGED <<now, dry_run, notLock, daily_loss, daily_reset, killed, orders, last_call,
                   ncalls, twin, coordVars>>

\* update_outcomes_for_condition: trades = json.loads(TRADES_FILE.read_text())
OutcomeRead(t) ==
    /\ caller[t].pc = "idle"
    /\ ncalls < MaxCalls
    /\ ncalls' = ncalls + 1
    /\ \E m \in Markets, outcome \in {"YES", "NO"} :
          caller' = [caller EXCEPT ![t].pc = "outcome_write",
                                   ![t].trades = ledger,
                                   ![t].arg = Some(<<m, outcome>>)]
    /\ UNCHANGED <<now, dry_run, notLock, daily_loss, daily_reset, killed, ledger, orders,
                   last_call, twin, coordVars, lock_holder, nsaved>>

\* update_outcomes_for_condition: the loop over the entries, and
\* "if changed: TRADES_FILE.write_text(...)"
OutcomeWrite(t) ==
    /\ caller[t].pc = "outcome_write"
    /\ LET trades == caller[t].trades
           updated == UpdateOutcomesForCondition(trades, caller[t].arg[1][1],
                                                 caller[t].arg[1][2], None)
       IN  ledger' = IF updated # trades THEN updated ELSE ledger
    /\ caller' = [caller EXCEPT ![t] = IdleCaller]
    /\ UNCHANGED <<now, dry_run, notLock, daily_loss, daily_reset, killed, orders, last_call,
                   ncalls, twin, coordVars, lock_holder, nsaved>>

LockNext ==
    \E t \in Callers :
        \/ LockAcquire(t)
        \/ LockedDecide(t)
        \/ SaveRead(t)
        \/ SaveWrite(t)
        \/ OutcomeRead(t)
        \/ OutcomeWrite(t)

SpecLock == ExecInit /\ [][LockNext]_vars

-----------------------------------------------------------------------------
(* The strategy as it runs: the coordinator's thread and the price feed *)

Init ==
    /\ now = 0
    /\ dry_run \in BOOLEAN
    /\ daily_loss = 0
    /\ daily_reset = Today(now)
    /\ killed = FALSE
    /\ ledger = <<>>
    /\ orders = <<>>
    /\ last_call = NoCall
    /\ ncalls = 0
    /\ twin = NoTwin
    /\ CoordInit
    /\ AuxInit

\* start()
Start ==
    /\ pc = "new"
    /\ running' = TRUE
    /\ pc' = "initial"
    /\ UNCHANGED <<now, dry_run, auxVars, execVars, twin, last_discovery, shadow, trackers,
                   strike_price, price, volatility, fired, skipped_signals,
                   opp_count, exec_count, exec_result, tick>>

\* _main_loop, "Initial discovery immediately"
InitialDiscovery ==
    /\ pc = "initial"
    /\ pc' = "loop"
    /\ \E w \in discover_and_clean(World, now, price) : Install(w)
    /\ UNCHANGED <<now, dry_run, auxVars, twin, running, last_discovery, price, volatility>>

\* one pass of "while self._running", the sleep at its end included
MainLoopIteration ==
    /\ pc = "loop"
    /\ running
    /\ LET discover == now - last_discovery >= tmc_discovery_interval
       IN  /\ \E w \in Iteration(World, now, discover, price, volatility) : Install(w)
           /\ last_discovery' = IF discover THEN now ELSE last_discovery
    /\ now < MaxTime
    /\ now' = now + LoopSleep
    /\ UNCHANGED <<dry_run, auxVars, twin, running, pc, price, volatility>>

\* the loop finds the flag cleared and returns
MainLoopExit ==
    /\ pc = "loop"
    /\ ~running
    /\ pc' = "done"
    /\ UNCHANGED <<now, dry_run, auxVars, execVars, twin, running, last_discovery, shadow,
                   trackers, strike_price, price, volatility, fired,
                   skipped_signals, opp_count, exec_count, exec_result, tick>>

\* stop()
Stop ==
    /\ pc # "new"
    /\ running
    /\ running' = FALSE
    /\ UNCHANGED <<now, dry_run, auxVars, execVars, twin, pc, last_discovery, shadow,
                   trackers, strike_price, price, volatility, fired,
                   skipped_signals, opp_count, exec_count, exec_result, tick>>

\* the feed thread receives a price; the volatility of the buffer follows
FeedMessage ==
    /\ running
    /\ \E p \in PriceVals, v \in {None} \cup {Some(x) : x \in VolVals} :
          /\ price' = Some(p)
          /\ volatility' = v
    /\ UNCHANGED <<now, dry_run, auxVars, execVars, twin, running, pc, last_discovery,
                   shadow, trackers, strike_price, fired, skipped_signals,
                   opp_count, exec_count, exec_result, tick>>

Next ==
    \/ Start
    \/ InitialDiscovery
    \/ MainLoopIteration
    \/ MainLoopExit
    \/ Stop
    \/ FeedMessage

Spec == Init /\ [][Next]_vars

-----------------------------------------------------------------------------
(* Two executors side by side: a live one whose orders all succeed and a   *)
(* dry-run one, given the same Opportunities at the same clock             *)

TwinInit == ExecInit /\ dry_run = FALSE

TwinExecute ==
    /\ ncalls < MaxCalls
    /\ \E opp \in OppInputs :
          /\ Execute(opp, "ok")
          /\ LET out == ExecuteInner(twin.st, opp, TRUE, Today(now), "ok")
             IN  twin' = [st |-> out.st, res |-> Some(out.res)]
    /\ UNCHANGED <<now, dry_run, auxVars, coordVars>>

TwinClock ==
    /\ now < MaxTime
    /\ now' = now + 1
    /\ UNCHANGED <<dry_run, auxVars, execVars, twin, coordVars>>

TwinNext == TwinExecute \/ TwinClock

SpecTwin == TwinInit /\ [][TwinNext]_vars

-----------------------------------------------------------------------------
(* _discover_and_clean called at any time, with the price feed and the     *)
(* clock running between the calls, and an observer of what each call did  *)

\* one call of _discover_and_clean
DiscoverPass ==
    /\ \E found \in FoundLists(now) :
          \E w \in discover_found(World, now, price, found) :
              /\ Install(w)
              /\ last_pass' = [t |-> now, price |-> price, found |-> SeqToSet(found),
                               tracked |-> tracked_condition_ids(World)]
              /\ captured_at' =
                    [m \in Markets |->
                        IF strike_price[m] = None /\ w.strike_price[m] # None
                        THEN Some(now) ELSE captured_at[m]]
              /\ untracked_at' =
                    [m \in Markets |->
                        IF m \in tracked_condition_ids(World) \ tracked_condition_ids(w)
                        THEN Append(untracked_at[m], now) ELSE untracked_at[m]]
    /\ UNCHANGED <<now, dry_run, notDisc, twin, running, pc, last_discovery, price,
                   volatility, spot_at_open>>

\* the feed thread receives a price
DiscoverFeed ==
    /\ \E p \in PriceVals :
          /\ price' = Some(p)
          /\ spot_at_open' =
                [m \in Markets |->
                    IF start_date(m) = Some(now) THEN spot_at_open[m] \cup {p}
                    ELSE spot_at_open[m]]
    /\ UNCHANGED <<now, dry_run, notDisc, execVars, twin, running, pc, last_discovery,
                   shadow, trackers, strike_price, volatility, fired, skipped_signals,
                   opp_count, exec_count, exec_result, tick, captured_at,
                   untracked_at, last_pass>>

\* time passes; the feed still shows its latest price
DiscoverClock ==
    /\ now < MaxTime
    /\ now' = now + 1
    /\ spot_at_open' =
          [m \in Markets |->
              IF start_date(m) = Some(now + 1) /\ price # None
              THEN spot_at_open[m] \cup {price[1]} ELSE spot_at_open[m]]
    /\ UNCHANGED <<dry_run, notDisc, execVars, twin, coordVars, captured_at,
                   untracked_at, last_pass>>

DiscoverNext == DiscoverPass \/ DiscoverFeed \/ DiscoverClock

SpecDiscover == Init /\ [][DiscoverNext]_vars

-----------------------------------------------------------------------------
(* The expiry sweep of _discover_and_clean, one statement at a time, on    *)
(* tracked markets at their expiry.  A write to TRADES_FILE or SHADOW_FILE *)
(* can raise; the exception leaves _discover_and_clean and is caught by    *)
(* the main loop, which calls _discover_and_clean again later.             *)

SkipLogs ==
    { <<>>,
      << SkipEntry(2, TRUE, FALSE, "no_valid_asks") >>,
      << SkipEntry(3, FALSE, TRUE, ""), SkipEntry(1, TRUE, FALSE, "confirming_momentum") >> }

\* the ledger row of a market that was traded
TradeRow(m) ==
    LedgerEntry(CHOOSE o \in OppInputs : o.condition_id = m,
                TradeResult(TRUE, <<>>, tmc_max_investment, None), TRUE)

SweepInit ==
    /\ now = end_date("m1")
    /\ dry_run = TRUE
    /\ daily_loss = 0
    /\ daily_reset = Today(0)
    /\ killed = FALSE
    /\ orders = <<>>
    /\ last_call = NoCall
    /\ ncalls = 0
    /\ twin = NoTwin
    /\ running = TRUE
    /\ pc = "loop"
    /\ last_discovery = 0
    /\ shadow = <<>>
    /\ trackers \in UNION { Orderings(S) : S \in SUBSET Markets \ {{}} }
    /\ strike_price \in [Markets -> {None, Some(100)}]
    /\ \A m \in Markets \ SeqToSet(trackers) : strike_price[m] = None
    /\ price \in {None} \cup {Some(p) : p \in PriceVals}
    /\ volatility = None
    /\ fired \in SUBSET {m \in Markets : strike_price[m] # None}
    /\ skipped_signals \in [Markets -> SkipLogs]
    /\ \A m \in Markets : strike_price[m] = None => skipped_signals[m] = <<>>
    /\ ledger \in { [i \in 1..Len(q) |-> TradeRow(q[i])] : q \in Orderings(fired) }
    /\ opp_count = [m \in Markets |-> IF m \in fired THEN 1 ELSE 0]
    /\ exec_count = [m \in Markets |-> IF m \in fired THEN 1 ELSE 0]
    /\ exec_result = [m \in Markets |-> IF m \in fired THEN Some("success") ELSE None]
    /\ tick = <<>>
    /\ LockInit
    /\ DiscInit
    /\ main = IdleMain
    /\ FeedInit
    /\ FilesInit
    /\ probe = None
    /\ BufInit
    /\ NestInit
    /\ OddsInit
    /\ sweep = IdleSweep
    /\ lifetime_skips =
          [m \in Markets |->
              IF m \in SeqToSet(trackers) THEN Some(skipped_signals[m]) ELSE None]

\* a statement of the loop body, and whether the market was in the tracker
\* when it ran
SweepStep(name, m) == [step |-> name, tracked |-> m \in tracked_condition_ids(World)]

sweepRest == <<now, dry_run, notSweep, twin, running, pc, last_discovery, price,
               volatility, lifetime_skips>>

\* "traded_cids = ..." and "for cid in list(self._tracker.tracked_condition_ids())"
SweepBegin ==
    /\ sweep.pc \in {"idle", "raised"}
    /\ \E order \in Orderings(tracked_condition_ids(World)) :
          sweep' = [IdleSweep EXCEPT !.pc = "next", !.todo = order,
                                     !.traded_cids = get_traded_condition_ids(World)]
    /\ UNCHANGED <<sweepRest, execVars, shadow, trackers, strike_price, fired,
                   skipped_signals, opp_count, exec_count, exec_result, tick>>

\* "if market and market.end_date < now": the profile and the skip log are
\* read "BEFORE removal"
SweepSnapshot ==
    /\ sweep.pc = "next"
    /\ sweep.todo # <<>>
    /\ LET m == Head(sweep.todo)
       IN  sweep' =
             IF m \in tracked_condition_ids(World) /\ end_date(m) < now
             THEN [sweep EXCEPT !.pc = "untrack", !.todo = Tail(@), !.cid = Some(m),
                                !.skipped = get_skipped_signals(World, m),
                                !.strike = strike_price[m],
                                !.final_price = None, !.outcome = None,
                                !.steps = <<SweepStep("snapshot", m)>>]
             ELSE [sweep EXCEPT !.todo = Tail(@)]
    /\ UNCHANGED <<sweepRest, execVars, shadow, trackers, strike_price, fired,
                   skipped_signals, opp_count, exec_count, exec_result, tick>>

\* self._tracker.remove_market(cid); self._signal_engine.mark_expired(cid)
SweepUntrack ==
    /\ sweep.pc = "untrack"
    /\ LET m == sweep.cid[1]
       IN  /\ Install(mark_expired(remove_market(World, m), m))
           /\ sweep' = [sweep EXCEPT !.pc = "resolve",
                                     !.steps = Append(@, SweepStep("untrack", m))]
    /\ UNCHANGED sweepRest

\* "Determine outcome from Binance price at window close vs strike"
SweepResolve ==
    /\ sweep.pc = "resolve"
    /\ LET m == sweep.cid[1]
       IN  \E pa \in IF sweep.strike # None THEN PricesAt(price) ELSE {None} :
              sweep' = [sweep EXCEPT
                          !.pc = IF pa # None THEN "executor_resolve" ELSE "persist",
                          !.final_price = pa,
                          !.outcome = IF pa # None
                                      THEN Some(ResolvedOutcome(pa[1], sweep.strike[1]))
                                      ELSE None,
                          !.steps = Append(@, SweepStep("resolve", m))]
    /\ UNCHANGED <<sweepRest, execVars, shadow, trackers, strike_price, fired,
                   skipped_signals, opp_count, exec_count, exec_result, tick>>

\* self._executor.update_outcomes_for_condition(cid, outcome, final_price);
\* its write_text can raise when it has a row to write
SweepExecutorResolve ==
    /\ sweep.pc = "executor_resolve"
    /\ LET m == sweep.cid[1]
           updated == UpdateOutcomesForCondition(ledger, m, sweep.outcome[1],
                                                 sweep.final_price)
       IN  \/ /\ ledger' = updated
              /\ sweep' = [sweep EXCEPT !.pc = "persist",
                                        !.steps = Append(@, SweepStep("executor_resolve", m))]
           \/ /\ updated # ledger
              /\ ledger' = ledger
              /\ sweep' = [sweep EXCEPT !.pc = "raised",
                                        !.steps = Append(@, SweepStep("executor_resolve", m))]
    /\ UNCHANGED <<sweepRest, daily_loss, daily_reset, killed, orders, last_call,
                   ncalls, shadow, trackers, strike_price, fired, skipped_signals,
                   opp_count, exec_count, exec_result, tick>>

\* self._save_shadow_entry(...); its write_text can raise
SweepPersist ==
    /\ sweep.pc = "persist"
    /\ LET m == sweep.cid[1]
       IN  \/ /\ shadow' = Append(shadow,
                                  ShadowEntry(m, sweep.strike, sweep.final_price,
                                              sweep.outcome, m \in sweep.traded_cids,
                                              sweep.skipped))
              /\ sweep' = [sweep EXCEPT !.pc = "next",
                                        !.steps = Append(@, SweepStep("persist", m))]
           \/ /\ shadow' = shadow
              /\ sweep' = [sweep EXCEPT !.pc = "raised",
                                        !.steps = Append(@, SweepStep("persist", m))]
    /\ UNCHANGED <<sweepRest, execVars, trackers, strike_price, fired,
                   skipped_signals, opp_count, exec_count, exec_result, tick>>

\* after the loop: "Discover new markets" and "Capture strike prices"
SweepRest ==
    /\ sweep.pc = "next"
    /\ sweep.todo = <<>>
    /\ \E found \in FoundLists(now) :
          Install(CaptureStrikes(AddNew(World, found, 1, tracked_condition_ids(World)),
                                 now, price))
    /\ sweep' = [sweep EXCEPT !.pc = "idle"]
    /\ UNCHANGED sweepRest

\* time passes between two calls of _discover_and_clean
SweepClock ==
    /\ sweep.pc \in {"idle", "raised"}
    /\ now < MaxTime
    /\ now' = now + 1
    /\ UNCHANGED <<dry_run, auxVars, execVars, twin, coordVars>>

SweepNext ==
    \/ SweepBegin
    \/ SweepSnapshot
    \/ SweepUntrack
    \/ SweepResolve
    \/ SweepExecutorResolve
    \/ SweepPersist
    \/ SweepRest
    \/ SweepClock

SpecSweep == SweepInit /\ [][SweepNext]_vars

-----------------------------------------------------------------------------
(* The control flow of _main_loop, call by call.  Each call it makes       *)
(* (_discover_and_clean, check_signals, execute) either returns or raises; *)
(* what the calls do to the strategy's state is left out here.             *)

\* the most Opportunities one check_signals returns: one per market
MaxOpps == Cardinality(Markets)

loopRest == <<dry_run, notMain, execVars, twin, pc, shadow, trackers, strike_price,
              price, volatility, fired, skipped_signals, opp_count, exec_count,
              exec_result, tick>>

\* start(): the flag is set and the thread is created
LoopStart ==
    /\ main.pc = "new"
    /\ running' = TRUE
    /\ main' = [main EXCEPT !.pc = "initial"]
    /\ UNCHANGED <<now, last_discovery, loopRest>>

\* "self._discover_and_clean()" before the while loop, outside any try
LoopInitialDiscovery ==
    /\ main.pc = "initial"
    /\ \E raises \in BOOLEAN :
          main' = [main EXCEPT !.pc = IF raises THEN "dead" ELSE "test"]
    /\ UNCHANGED <<now, running, last_discovery, loopRest>>

\* "while self._running"
LoopTest ==
    /\ main.pc = "test"
    /\ main' = [main EXCEPT !.pc = IF running THEN "discover" ELSE "done",
                            !.caught = FALSE]
    /\ UNCHANGED <<now, running, last_discovery, loopRest>>

\* "Periodic discovery", inside the try of the loop body
LoopDiscover ==
    /\ main.pc = "discover"
    /\ IF now - last_discovery >= tmc_discovery_interval
       THEN \E raises \in BOOLEAN :
               IF raises
               THEN /\ main' = [main EXCEPT !.pc = "sleep", !.caught = TRUE]
                    /\ UNCHANGED last_discovery
               ELSE /\ main' = [main EXCEPT !.pc = "check"]
                    /\ last_discovery' = now
       ELSE /\ main' = [main EXCEPT !.pc = "check"]
            /\ UNCHANGED last_discovery
    /\ UNCHANGED <<now, running, loopRest>>

\* "opportunities = self._signal_engine.check_signals()"
LoopCheck ==
    /\ main.pc = "check"
    /\ \/ \E n \in 0..MaxOpps : main' = [main EXCEPT !.pc = "execute", !.todo = n]
       \/ main' = [main EXCEPT !.pc = "sleep", !.caught = TRUE]
    /\ UNCHANGED <<now, running, last_discovery, loopRest>>

\* "for opp in opportunities": the break on a cleared flag, and execute()
\* inside its own try
LoopExecute ==
    /\ main.pc = "execute"
    /\ IF main.todo = 0 \/ ~running
       THEN main' = [main EXCEPT !.pc = "sleep", !.todo = 0]
       ELSE \E raises \in BOOLEAN :
               main' = [main EXCEPT !.todo = @ - 1, !.caught = @ \/ raises]
    /\ UNCHANGED <<now, running, last_discovery, loopRest>>

\* "time.sleep(0.5)"
LoopSleeps ==
    /\ main.pc = "sleep"
    /\ now < MaxTime
    /\ now' = now + LoopSleep
    /\ main' = [main EXCEPT !.pc = "test"]
    /\ UNCHANGED <<running, last_discovery, loopRest>>

\* stop()
LoopStop ==
    /\ main.pc # "new"
    /\ running
    /\ running' = FALSE
    /\ UNCHANGED <<now, last_discovery, main, loopRest>>

LoopNext ==
    \/ LoopStart
    \/ LoopInitialDiscovery
    \/ LoopTest
    \/ LoopDiscover
    \/ LoopCheck
    \/ LoopExecute
    \/ LoopSleeps
    \/ LoopStop

SpecLoop == Init /\ [][LoopNext]_vars

-----------------------------------------------------------------------------
(* The WebSocket thread of each feed (_ws_loop and _connect), stop() and   *)
(* the server.  "ws" says that self._ws holds a WebSocketApp, "open" that  *)
(* the connection of that app is up; run_forever returns when it is not.   *)

feedRest == <<now, dry_run, notFeed, execVars, twin, coordVars>>

\* start()
FeedStart(f) ==
    /\ feed[f].pc = "off"
    /\ ~feed[f].running
    /\ feed' = [feed EXCEPT ![f].running = TRUE, ![f].pc = "test"]
    /\ UNCHANGED feedRest

\* "while self._running", and for the odds feed "if not tokens"
WsLoopTest(f) ==
    /\ feed[f].pc = "test"
    /\ feed' = [feed EXCEPT ![f].pc =
                    IF ~feed[f].running THEN "done"
                    ELSE IF ~feed[f].tokens THEN "idle_sleep"
                    ELSE "connect"]
    /\ UNCHANGED feedRest

\* the odds feed with nothing to subscribe to: time.sleep(1); continue
WsIdleSleep(f) ==
    /\ feed[f].pc = "idle_sleep"
    /\ feed' = [feed EXCEPT ![f].pc = "test"]
    /\ UNCHANGED feedRest

\* _connect: self._ws = WebSocketApp(...); run_forever either brings the
\* connection up or fails at once (an exception, caught by _ws_loop, or a
\* plain return)
WsConnect(f) ==
    /\ feed[f].pc = "connect"
    /\ \/ feed' = [feed EXCEPT ![f].ws = TRUE, ![f].open = TRUE, ![f].pc = "running"]
       \/ feed' = [feed EXCEPT ![f].ws = TRUE, ![f].open = FALSE, ![f].pc = "after"]
    /\ UNCHANGED feedRest

\* the server or the network drops the connection
WsDisconnect(f) ==
    /\ feed[f].pc = "running"
    /\ feed[f].open
    /\ feed' = [feed EXCEPT ![f].open = FALSE]
    /\ UNCHANGED feedRest

\* run_forever returns once the connection is down
WsRunReturns(f) ==
    /\ feed[f].pc = "running"
    /\ ~feed[f].open
    /\ feed' = [feed EXCEPT ![f].pc = "after"]
    /\ UNCHANGED feedRest

\* "if self._running: time.sleep(2)" at the end of the loop body
AfterDrop_gives_up(is_running) == "done"
AfterDrop(is_running) == IF is_running THEN "sleep" ELSE "test"

WsAfter(f) ==
    /\ feed[f].pc = "after"
    /\ feed' = [feed EXCEPT ![f].pc = AfterDrop(feed[f].running)]
    /\ UNCHANGED feedRest

\* the reconnect delay is over
WsSleepEnds(f) ==
    /\ feed[f].pc = "sleep"
    /\ feed' = [feed EXCEPT ![f].pc = "test"]
    /\ UNCHANGED feedRest

\* stop(): self._running = False
FeedStopFlag(f) ==
    /\ feed[f].running
    /\ feed[f].stop_pc = "no"
    /\ feed' = [feed EXCEPT ![f].running = FALSE, ![f].stop_pc = "flag"]
    /\ UNCHANGED feedRest

\* stop(): "if self._ws: self._ws.close()"
FeedStopClose(f) ==
    /\ feed[f].stop_pc = "flag"
    /\ feed' = [feed EXCEPT ![f].stop_pc = "closed",
                            ![f].open = IF feed[f].ws THEN FALSE ELSE @]
    /\ UNCHANGED feedRest

\* add_market / remove_market of the odds feed, called by the main loop: the
\* token list changes and _reconnect_ws closes the socket
OddsMarketsChange ==
    /\ feed["odds"].stop_pc = "no"
    /\ \E has_tokens \in BOOLEAN :
          feed' = [feed EXCEPT !["odds"].tokens = has_tokens,
                               !["odds"].open = IF feed["odds"].ws THEN FALSE ELSE @]
    /\ UNCHANGED feedRest

WsThread(f) ==
    \/ WsLoopTest(f)
    \/ WsIdleSleep(f)
    \/ WsConnect(f)
    \/ WsRunReturns(f)
    \/ WsAfter(f)
    \/ WsSleepEnds(f)

FeedNext ==
    \/ \E f \in Feeds :
          \/ FeedStart(f)
          \/ WsThread(f)
          \/ WsDisconnect(f)
          \/ FeedStopFlag(f)
          \/ FeedStopClose(f)
    \/ OddsMarketsChange

SpecFeed == Init /\ [][FeedNext]_vars

\* the same with each feed thread scheduled again and again
SpecFeedLive == SpecFeed /\ \A f \in Feeds : WF_vars(WsThread(f))

-----------------------------------------------------------------------------
(* The append to a JSON file at the end of _save_trade and of              *)
(* _save_shadow_entry, over what the file can hold when it is read:        *)
(*   "missing"    no file                                                  *)
(*   "array"      a JSON array, rows are its elements                      *)
(*   "not_json"   text that json.loads rejects (JSONDecodeError)           *)
(*   "locked"     read_text raises OSError                                 *)
(*   "not_array"  valid JSON that is not an array: {}, null, a number      *)
(*   "bad_bytes"  bytes that are not UTF-8: read_text raises               *)
(*                UnicodeDecodeError                                       *)

DamagedKinds == {"not_json", "locked", "not_array", "bad_bytes"}

\* the except clause: (json.JSONDecodeError, OSError)
CaughtOnRead == {"not_json", "locked"}

\* "entries = []; if FILE.exists(): try: entries = json.loads(FILE.read_text())
\* except (json.JSONDecodeError, OSError): entries = []": the value bound to
\* entries, or the exception that leaves the function
load_entries(file) ==
    IF file.kind = "missing" THEN [raised |-> FALSE, is_list |-> TRUE, rows |-> <<>>]
    ELSE IF file.kind = "array" THEN [raised |-> FALSE, is_list |-> TRUE, rows |-> file.rows]
    ELSE IF file.kind \in CaughtOnRead THEN [raised |-> FALSE, is_list |-> TRUE, rows |-> <<>>]
    ELSE IF file.kind = "not_array" THEN [raised |-> FALSE, is_list |-> FALSE, rows |-> <<>>]
    ELSE [raised |-> TRUE, is_list |-> FALSE, rows |-> <<>>]

\* "entries.append(entry); FILE.write_text(json.dumps(entries, indent=2))":
\* append raises AttributeError on a value that is not a list
append_entry(file, entry) ==
    LET got == load_entries(file) IN
    IF got.raised \/ ~got.is_list
    THEN [raised |-> TRUE, file |-> file]
    ELSE [raised |-> FALSE, file |-> [kind |-> "array", rows |-> Append(got.rows, entry)]]

SavesDone == IF last_save = None THEN 0 ELSE last_save[1].entry

filesRest == <<now, dry_run, notFiles, execVars, twin, coordVars>>

save_entry(f) ==
    LET entry == SavesDone + 1
        out == append_entry(files[f], entry)
    IN  /\ files' = [files EXCEPT ![f] = out.file]
        /\ last_save' = Some([name |-> f, entry |-> entry, found |-> files[f].kind,
                              raised |-> out.raised, left |-> out.file])

\* _save_trade
FileSaveTrade ==
    /\ SavesDone < MaxCalls
    /\ save_entry("TRADES_FILE")
    /\ UNCHANGED filesRest

\* _save_shadow_entry
FileSaveShadow ==
    /\ SavesDone < MaxCalls
    /\ save_entry("SHADOW_FILE")
    /\ UNCHANGED filesRest

\* something other than the program damages or removes a file
FileDamaged(f) ==
    /\ \E kind \in DamagedKinds \cup {"missing"} :
          /\ files[f].kind # kind
          /\ files' = [files EXCEPT ![f] = [kind |-> kind, rows |-> <<>>]]
    /\ UNCHANGED <<last_save, filesRest>>

FilesNext ==
    \/ FileSaveTrade
    \/ FileSaveShadow
    \/ \E f \in FileNames : FileDamaged(f)

SpecFiles == Init /\ [][FilesNext]_vars

-----------------------------------------------------------------------------
(* One pass of the loop body of check_signals on its own: for any market,  *)
(* time, price, volatility, strike and order book, what the gates decide.  *)
(* The volatilities include one between zero and tmc_min_volatility.       *)

SignalVols == 0..tmc_min_volatility

probeRest == <<now, dry_run, notProbe, execVars, twin, coordVars>>

SignalTick ==
    /\ probe = None
    /\ \E m \in Markets, t \in 0..MaxTime, was_fired \in BOOLEAN,
          px \in {None} \cup {Some(x) : x \in PriceVals},
          strike \in {None} \cup {Some(x) : x \in PriceVals},
          vol \in {None} \cup {Some(x) : x \in SignalVols} :
          LET w == [World EXCEPT !.trackers = <<m>>,
                                 !.strike_price[m] = strike,
                                 !.fired = IF was_fired THEN {m} ELSE {}]
          IN  \E rd \in ReadingsFor(w, m, t, px, vol) :
                probe' = Some([ fn |-> "check_signals", m |-> m, t |-> t,
                                was_fired |-> was_fired, price |-> px,
                                strike |-> strike, volatility |-> vol, rd |-> rd,
                                ev |-> Evaluate(w, m, t, px, vol, rd) ])
    /\ UNCHANGED probeRest

SpecSignal == Init /\ [][SignalTick]_vars

\* The same pass under other settings of TMC_MIN_SECONDS_REMAINING: at the
\* start of the execution window, at its end, and past it, as the defaults
\* of Config.from_env are (7.0 against an execution window of 5.0).
WindowConfigs ==
    { [WindowConfig EXCEPT !.tmc_min_seconds_remaining = s] :
        s \in 1..tmc_execution_window + 1 }

ConfiguredTick ==
    /\ probe = None
    /\ \E cfg \in WindowConfigs, m \in Markets, t \in 0..MaxTime,
          px \in {Some(x) : x \in PriceVals}, strike \in {Some(x) : x \in PriceVals},
          vol \in {Some(x) : x \in SignalVols}, rd \in Readings :
          LET w == [World EXCEPT !.trackers = <<m>>,
                                 !.strike_price[m] = strike,
                                 !.fired = {}]
          IN  probe' = Some([ fn |-> "check_signals under config", cfg |-> cfg,
                              m |-> m, t |-> t, price |-> px, strike |-> strike,
                              volatility |-> vol, rd |-> rd,
                              ev |-> EvaluateConfigured(cfg, w, m, t, px, vol, rd) ])
    /\ UNCHANGED probeRest

SpecSignalConfig == Init /\ [][ConfiguredTick]_vars

-----------------------------------------------------------------------------
(* norm_cdf(x) of the backtest script near the ends of its range, in       *)
(* binary64.  x is given in eighths, which binary64 holds exactly.  The    *)
(* result is within 2^-30 of 1.0 or of 0.0 for |x| >= 6 and is written as  *)
(* its distance from that end in units of 2^-54: [near |-> "1.0", gap |->  *)
(* 0] is exactly 1.0.                                                      *)

SaturationAt == 8 * 8       \* the bound 8 of "x < -8" and "x > 8", in eighths
SeriesFrom == 6 * 8         \* the least |x| of the table below, in eighths

\* "1.0 - y" for x_abs = 6, 6.125, ..., 8: the term the series subtracts from
\* 1.0, which the spacing of binary64 below 1.0 makes a multiple of 2^-53
SeriesTerm ==
    << 12884017, 5923162, 2681921, 1195974, 525261, 227195, 96781, 40601,
       16774, 6825, 2735, 1079, 419, 160, 60, 22, 8 >>

\* 0.5 * (1.0 + y) = 1 - k * 2^-54 rounded to the spacing 2^-53, ties to even
HalfOnePlus(k) ==
    IF k % 2 = 0 THEN k
    ELSE IF (k + 1) % 4 = 0 THEN k + 1 ELSE k - 1

norm_cdf(x) ==
    IF x < 0 - SaturationAt THEN [near |-> "0.0", gap |-> 0]
    ELSE IF x > SaturationAt THEN [near |-> "1.0", gap |-> 0]
    ELSE LET x_abs == Abs(x)
             k == SeriesTerm[x_abs - SeriesFrom + 1]
         IN  IF x >= 0
             THEN [near |-> "1.0", gap |-> HalfOnePlus(k)]
             \* 0.5 * (1.0 - y) is exact
             ELSE [near |-> "0.0", gap |-> k]

CdfArgs == {x \in (0 - 80)..80 : Abs(x) >= SeriesFrom}

CdfCall ==
    /\ probe = None
    /\ \E x \in CdfArgs :
          probe' = Some([fn |-> "norm_cdf", x |-> x, out |-> norm_cdf(x)])
    /\ UNCHANGED probeRest

SpecCdf == Init /\ [][CdfCall]_vars

-----------------------------------------------------------------------------
(* calc_prob_above(price, strike, vol, T) of the backtest script.  The     *)
(* arguments are small integers of either sign.  Of the result only what   *)
(* the sign of d2 decides is kept: "0.5" is the constant the function      *)
(* returns for degenerate inputs, "cdf(0)" is norm_cdf at d2 = 0, "above"  *)
(* and "below" are the values norm_cdf gives for d2 > 0 and d2 < 0.        *)

Degenerate_ignores_T(spot, strike, vol, T) ==
    spot <= 0 \/ strike <= 0 \/ vol <= 0
Degenerate(spot, strike, vol, T) ==
    spot <= 0 \/ strike <= 0 \/ vol <= 0 \/ T <= 0

calc_prob_above(spot, strike, vol, T) ==
    IF Degenerate(spot, strike, vol, T) THEN [raised |-> FALSE, prob |-> "0.5"]
    \* price / strike
    ELSE IF strike = 0 THEN [raised |-> TRUE, prob |-> "ZeroDivisionError"]
    \* math.log of a ratio that is not positive, math.sqrt of a negative T
    ELSE IF spot * strike <= 0 \/ T < 0 THEN [raised |-> TRUE, prob |-> "ValueError"]
    \* the division by vol * math.sqrt(T)
    ELSE IF vol = 0 \/ T = 0 THEN [raised |-> TRUE, prob |-> "ZeroDivisionError"]
    ELSE LET up == (spot > strike) = (vol > 0) IN
         [ raised |-> FALSE,
           prob |-> IF spot = strike THEN "cdf(0)"
                    ELSE IF up THEN "above" ELSE "below" ]

ProbArgs == (0 - 1)..2

ProbCall ==
    /\ probe = None
    /\ \E spot \in ProbArgs, strike \in ProbArgs, vol \in ProbArgs, T \in ProbArgs :
          probe' = Some([ fn |-> "calc_prob_above", price |-> spot,
                          strike |-> strike, vol |-> vol, T |-> T,
                          out |-> calc_prob_above(spot, strike, vol, T) ])
    /\ UNCHANGED probeRest

SpecProb == Init /\ [][ProbCall]_vars

-----------------------------------------------------------------------------
(* get_price_at of the price feed, for one asset.  A history is the deque  *)
(* of (timestamp, price) samples in the order _on_message appended them,   *)
(* with timestamps in seconds; _prices[asset] is the price of the sample   *)
(* appended last.                                                          *)

\* "if best_price is not None and best_diff <= 60"
PriceAtTolerance == 60

latest_price(hist) == IF hist = <<>> THEN None ELSE Some(hist[Len(hist)][2])

TimeDiff_signed(ts, target_ts) == ts - target_ts
TimeDiff(ts, target_ts) == Abs(ts - target_ts)

\* the loop over hist from position i on; best is None for "best_diff = inf"
RECURSIVE NearestFrom(_, _, _, _)
NearestFrom(hist, i, target_ts, best) ==
    IF i > Len(hist) THEN best
    ELSE LET diff == TimeDiff(hist[i][1], target_ts) IN
         NearestFrom(hist, i + 1, target_ts,
                     IF best = None \/ diff < best[1].diff
                     THEN Some([diff |-> diff, price |-> hist[i][2]])
                     ELSE best)

get_price_at(hist, target_ts) ==
    IF hist = <<>> THEN latest_price(hist)
    ELSE LET best == NearestFrom(hist, 1, target_ts, None) IN
         IF best # None /\ best[1].diff <= PriceAtTolerance
         THEN Some(best[1].price)
         ELSE latest_price(hist)

\* histories of up to three samples, in any order of arrival
SampleTimes == {0, 50, 100, 200}
Samples == SampleTimes \X PriceVals
ShortHistories ==
    {<<>>} \cup {<<a>> : a \in Samples}
           \cup {<<a, b>> : a \in Samples, b \in Samples}
           \cup {<<a, b, c>> : a \in Samples, b \in Samples, c \in Samples}

\* targets on a sample, at equal distance of two, at the tolerance and past it
TargetTimes == {0, 25, 75, 130, 160, 161, 260}

PriceAtCall ==
    /\ probe = None
    /\ \E hist \in ShortHistories, target_ts \in TargetTimes :
          probe' = Some([ fn |-> "get_price_at", hist |-> hist,
                          target_ts |-> target_ts,
                          out |-> get_price_at(hist, target_ts) ])
    /\ UNCHANGED probeRest

SpecPriceAt == Init /\ [][PriceAtCall]_vars

-----------------------------------------------------------------------------
(* get_volatility of the price feed, for one asset.  The history has one   *)
(* sample per second, at 1, 2, ...; prices are those of PriceVals, so a    *)
(* log-return is one step up, one step down or zero, counted in units of   *)
(* the logarithm of the ratio of the two prices.                           *)

\* "if len(points) < 10" and "if len(returns) < 5"
MinPoints == 10
MinReturns == 5

InsufficientData_zero == Some(0)
InsufficientData == None

\* math.log(curr_px / prev_px)
LogReturn(prev_px, curr_px) ==
    IF curr_px > prev_px THEN 1 ELSE IF curr_px < prev_px THEN 0 - 1 ELSE 0

\* the returns between consecutive points from position i on
RECURSIVE ReturnsFrom(_, _)
ReturnsFrom(points, i) ==
    IF i > Len(points) THEN <<>>
    ELSE (IF points[i - 1][2] > 0
          THEN <<LogReturn(points[i - 1][2], points[i][2])>> ELSE <<>>)
         \o ReturnsFrom(points, i + 1)

RECURSIVE SumSeq(_)
SumSeq(q) == IF q = <<>> THEN 0 ELSE Head(q) + SumSeq(Tail(q))

\* the result is the square of what the source returns, times the square of
\* the number of returns: n * sum(r^2) - sum(r)^2 is n^2 times the variance
get_volatility(hist, now_ts, window_seconds) ==
    LET cutoff == now_ts - window_seconds
        points == SelectSeq(hist, LAMBDA s : s[1] >= cutoff)
        returns == ReturnsFrom(points, 2)
        squares == [i \in DOMAIN returns |-> returns[i] * returns[i]]
    IN  IF hist = <<>> THEN InsufficientData
        ELSE IF Len(points) < MinPoints THEN InsufficientData
        ELSE IF Len(returns) < MinReturns THEN InsufficientData
        ELSE Some(Len(returns) * SumSeq(squares) - SumSeq(returns) * SumSeq(returns))

VolWindows == {MinReturns, MinPoints, 300}

VolatilityCall ==
    /\ probe = None
    /\ \E n \in 0..MaxSamples, window_seconds \in VolWindows :
          \E pxs \in [1..n -> PriceVals] :
             LET hist == [i \in 1..n |-> <<i, pxs[i]>>] IN
             probe' = Some([ fn |-> "get_volatility", hist |-> hist, now_ts |-> MaxSamples,
                             window_seconds |-> window_seconds,
                             out |-> get_volatility(hist, MaxSamples, window_seconds) ])
    /\ UNCHANGED probeRest

SpecVolatility == Init /\ [][VolatilityCall]_vars

-----------------------------------------------------------------------------
(* _on_message of the price feed, for one asset.  Timestamps are whole     *)
(* clock units.  The sizes are scaled down: the deque keeps MAX_HISTORY    *)
(* samples (1800 in the source), the seen set is pruned once it holds more *)
(* than SeenLimit timestamps (600) of those older than SeenKeep (300 s).   *)

MAX_HISTORY == 3
SeenLimit == 1
SeenKeep == 1

\* deque(maxlen=MAX_HISTORY).append
deque_append(q, x) ==
    IF Len(q) < MAX_HISTORY THEN Append(q, x) ELSE Append(Tail(q), x)

\* the loop over the points of one message from position i on
RECURSIVE PointsFrom(_, _, _, _)
PointsFrom(points, i, hist, seen) ==
    IF i > Len(points) THEN [hist |-> hist, seen |-> seen]
    ELSE LET ts == points[i][1]
             px == points[i][2]
         IN  IF px <= 0 \/ ts \in seen
             THEN PointsFrom(points, i + 1, hist, seen)
             ELSE PointsFrom(points, i + 1, deque_append(hist, <<ts, px>>),
                             seen \cup {ts})

\* "if len(seen) > 600: seen -= {t for t in seen if t < cutoff}"
prune_seen(seen, t) ==
    IF Cardinality(seen) > SeenLimit
    THEN { x \in seen : x >= t - SeenKeep } ELSE seen

\* what the server can put in one message: one point, or a burst of two
\* with one timestamp; any timestamp up to the present, a price of the asset
\* or zero
Points == (0..MaxTime) \X (PriceVals \cup {0})
Messages ==
    {<<a>> : a \in Points} \cup {ab \in Points \X Points : ab[1][1] = ab[2][1]}

bufRest == <<dry_run, notBuf, execVars, twin, coordVars>>

OnMessage ==
    /\ \E points \in Messages :
          /\ \A i \in DOMAIN points : points[i][1] <= now
          /\ LET r == PointsFrom(points, 1, history, seen_ts) IN
             /\ history' = r.hist
             /\ seen_ts' = prune_seen(r.seen, now)
    /\ UNCHANGED <<now, bufRest>>

BufferClock ==
    /\ now < MaxTime
    /\ now' = now + 1
    /\ UNCHANGED <<history, seen_ts, bufRest>>

SpecBuffer == Init /\ [][OnMessage \/ BufferClock]_vars

-----------------------------------------------------------------------------
(* TightnessTracker: add_market, remove_market and _process_update on the  *)
(* three maps.  A dict is a function on its keys.  The reconnect that      *)
(* add_market and remove_market end with acts on the connection of the odds*)
(* stream's thread, below.                                                 *)

NoPrices == [yes |-> None, no |-> None]

AskVals == {30, 70}

oddsRest == <<now, dry_run, notOdds, execVars, twin, coordVars>>

\* _reconnect_ws: "if self._ws: self._ws.close()"
reconnect_ws(s) == IF s.ws THEN [s EXCEPT !.open = FALSE] ELSE s

\* add_market and remove_market update the maps under the lock and then
\* call _reconnect_ws; the two are one step here.
TrackerAdd(m) ==
    /\ m \notin tracker_ids
    /\ tracker_ids' = tracker_ids \cup {m}
    /\ token_to_market' =
          [t \in DOMAIN token_to_market \cup {YesToken(m), NoToken(m)} |->
              IF t \in {YesToken(m), NoToken(m)} THEN m ELSE token_to_market[t]]
    /\ current_prices' =
          [c \in DOMAIN current_prices \cup {m} |->
              IF c = m THEN NoPrices ELSE current_prices[c]]
    \* a new MarketTracker
    /\ snapshots' = [snapshots EXCEPT ![m] = <<>>]
    /\ received' = [received EXCEPT ![m] = <<>>]
    /\ sub' = reconnect_ws(sub)
    /\ UNCHANGED oddsRest

\* dict.pop(key, None) for each of the keys
pop_keeps(d, keys) == d
pop(d, keys) == [k \in DOMAIN d \ keys |-> d[k]]

TrackerRemove(m) ==
    /\ m \in tracker_ids
    /\ tracker_ids' = tracker_ids \ {m}
    /\ token_to_market' = pop(token_to_market, {YesToken(m), NoToken(m)})
    /\ current_prices' = pop(current_prices, {m})
    /\ sub' = reconnect_ws(sub)
    /\ UNCHANGED <<snapshots, received, oddsRest>>

BothSides_either(prices) == prices.yes # None \/ prices.no # None
BothSides(prices) == prices.yes # None /\ prices.no # None

\* _process_update for a message about asset_id with the given best ask
\* (None: the message has no ask above zero)
ProcessUpdate(asset_id, best_ask) ==
    /\ Len(received[asset_id[1]]) < MaxUpdates
    /\ received' = [received EXCEPT ![asset_id[1]] =
                        IF asset_id[1] \in tracker_ids /\ best_ask # None
                        THEN Append(@, <<asset_id[2], best_ask[1]>>) ELSE @]
    /\ IF \/ asset_id \notin DOMAIN token_to_market
          \/ token_to_market[asset_id] \notin tracker_ids
          \/ token_to_market[asset_id] \notin DOMAIN current_prices
          \/ best_ask = None
       THEN UNCHANGED <<current_prices, snapshots>>
       ELSE LET condition_id == token_to_market[asset_id]
                prices == IF asset_id = YesToken(condition_id)
                          THEN [current_prices[condition_id] EXCEPT !.yes = best_ask]
                          ELSE IF asset_id = NoToken(condition_id)
                          THEN [current_prices[condition_id] EXCEPT !.no = best_ask]
                          ELSE current_prices[condition_id]
            IN  /\ current_prices' = [current_prices EXCEPT ![condition_id] = prices]
                /\ snapshots' =
                      IF BothSides(prices)
                      THEN [snapshots EXCEPT ![condition_id] =
                              Append(@, [yes_price |-> prices.yes,
                                         no_price |-> prices.no])]
                      ELSE snapshots
    /\ UNCHANGED <<tracker_ids, token_to_market, sub, oddsRest>>

TrackerNext ==
    \/ \E m \in Markets : TrackerAdd(m) \/ TrackerRemove(m)
    \/ \E m \in Markets, side \in {"yes", "no"},
          best_ask \in {None} \cup {Some(a) : a \in AskVals} :
          ProcessUpdate(<<m, side>>, best_ask)

SpecTracker == Init /\ [][TrackerNext]_vars

-----------------------------------------------------------------------------
(* The odds stream's thread (_ws_loop, _connect, _on_open) between start() *)
(* and stop(), with add_market and remove_market called by the main loop.  *)

\* the markets whose tokens are keys of _token_to_market
IndexedMarkets == {token_to_market[t] : t \in DOMAIN token_to_market}

subRest == <<oddsVars, oddsRest>>

\* start()
OddsStart ==
    /\ ~sub.running
    /\ sub' = [sub EXCEPT !.running = TRUE, !.pc = "read"]
    /\ UNCHANGED subRest

\* "with self._lock: tokens = list(self._token_to_market.keys())" and
\* "if not tokens"
OddsReadTokens ==
    /\ sub.pc = "read"
    /\ sub' = [sub EXCEPT !.tokens = IndexedMarkets,
                          !.pc = IF IndexedMarkets = {} THEN "idle_sleep" ELSE "connect"]
    /\ UNCHANGED subRest

\* time.sleep(1); continue
OddsIdleSleep ==
    /\ sub.pc = "idle_sleep"
    /\ sub' = [sub EXCEPT !.pc = "read"]
    /\ UNCHANGED subRest

\* _connect(tokens): self._ws = WebSocketApp(...), run_forever brings the
\* connection up and _on_open subscribes to the tokens it was given, or
\* run_forever fails at once
OddsConnect ==
    /\ sub.pc = "connect"
    /\ \/ sub' = [sub EXCEPT !.ws = TRUE, !.open = TRUE,
                             !.subscribed = sub.tokens, !.pc = "running"]
       \/ sub' = [sub EXCEPT !.ws = TRUE, !.open = FALSE,
                             !.subscribed = {}, !.pc = "sleep"]
    /\ UNCHANGED subRest

\* the server or the network drops the connection
OddsDrop ==
    /\ sub.pc = "running"
    /\ sub.open
    /\ sub' = [sub EXCEPT !.open = FALSE]
    /\ UNCHANGED subRest

\* run_forever returns once the connection is down
OddsRunReturns ==
    /\ sub.pc = "running"
    /\ ~sub.open
    /\ sub' = [sub EXCEPT !.pc = "sleep"]
    /\ UNCHANGED subRest

\* "if self._running: time.sleep(2)" is over
OddsSleepEnds ==
    /\ sub.pc = "sleep"
    /\ sub' = [sub EXCEPT !.pc = "read"]
    /\ UNCHANGED subRest

OddsThread ==
    \/ OddsReadTokens
    \/ OddsIdleSleep
    \/ OddsConnect
    \/ OddsRunReturns
    \/ OddsSleepEnds

ResubscribeNext ==
    \/ OddsStart
    \/ OddsThread
    \/ OddsDrop
    \/ \E m \in Markets : TrackerAdd(m) \/ TrackerRemove(m)

SpecResubscribe == Init /\ [][ResubscribeNext]_vars

\* the same with the thread scheduled again and again
SpecResubscribeLive == SpecResubscribe /\ WF_vars(OddsThread)

-----------------------------------------------------------------------------
(* The locks.  Of each operation only its lock steps are kept, in program  *)
(* order: a "with lock:" block is an acquire and a release, and what the   *)
(* block calls comes between the two.  threading.Lock is not reentrant: an *)
(* acquire waits while any thread, the caller included, is inside.         *)

With(l, inside) == << <<"acquire", l>> >> \o inside \o << <<"release", l>> >>

\* the concatenation of f[1], ..., f[n]
RECURSIVE Chain(_, _)
Chain(f, i) == IF i > Len(f) THEN <<>> ELSE f[i] \o Chain(f, i + 1)

\* TightnessTracker: add_market, remove_market, get_tracked_market,
\* tracked_condition_ids and the token read of _ws_loop
TrackerCall == With(TrackerLock, <<>>)

\* MarketTracker.get_profile and MarketTracker.record
SnapshotCall(m) == With(SnapshotLock(m), <<>>)

\* TightnessTracker.get_profile(cid)
LocksOfGetProfile(m) == TrackerCall \o SnapshotCall(m)

\* TightnessTracker.get_all_profiles: the trackers are copied under the lock
\* and asked for their profiles after it
LocksOfGetAllProfiles_inside(ms) ==
    With(TrackerLock, Chain([i \in 1..Len(ms) |-> SnapshotCall(ms[i])], 1))
LocksOfGetAllProfiles(ms) ==
    TrackerCall \o Chain([i \in 1..Len(ms) |-> SnapshotCall(ms[i])], 1)

\* TightnessTracker._process_update: the lookup, then tracker.record
LocksOfProcessUpdate(m) == TrackerCall \o SnapshotCall(m)

\* the price feed: get_price, get_price_at, get_volatility, get_price_history
FeedCall == With(FeedLock, <<>>)

\* get_expected_move: get_volatility, then get_price
LocksOfGetExpectedMove == FeedCall \o FeedCall

\* _on_message: the append, and every 30 s the price line of the log
LocksOfOnMessage(logs) == IF logs THEN FeedCall \o FeedCall ELSE FeedCall

\* execute(): _execute_inner runs inside the lock and takes no other
LocksOfExecute == With(ExecutorLock, <<>>)

\* check_signals: the profiles, then for each of them get_price,
\* get_expected_move, get_volatility and _get_price_momentum
LocksOfCheckSignals(ms) ==
    LocksOfGetAllProfiles(ms)
        \o Chain([i \in 1..Len(ms) |->
                    FeedCall \o LocksOfGetExpectedMove \o FeedCall \o FeedCall], 1)

\* _discover_and_clean for one expired market: tracked_condition_ids,
\* get_tracked_market, get_profile, remove_market, get_price_at; then
\* tracked_condition_ids, add_market for a market found, and
\* tracked_condition_ids for the log line
LocksOfDiscoverAndClean(m) ==
    TrackerCall \o TrackerCall \o LocksOfGetProfile(m) \o TrackerCall \o FeedCall
        \o TrackerCall \o TrackerCall \o TrackerCall

MarketLists == {<<>>, <<"m1">>, <<"m2">>, <<"m1", "m2">>}

nestRest == <<now, dry_run, notNest, execVars, twin, coordVars>>

\* the main loop: discovery, signal check, execution
MainBegins ==
    /\ lock_todo["TMC-Main"] = <<>>
    /\ \E steps \in {LocksOfCheckSignals(ms) : ms \in MarketLists}
                     \cup {LocksOfDiscoverAndClean(m) : m \in Markets}
                     \cup {LocksOfExecute} :
            lock_todo' = [lock_todo EXCEPT !["TMC-Main"] = steps]
    /\ UNCHANGED <<lock_owner, nestRest>>

\* the odds stream's thread: a message, or the token read of its loop
OddsBegins ==
    /\ lock_todo["TMC-WebSocket"] = <<>>
    /\ \E steps \in {LocksOfProcessUpdate(m) : m \in Markets} \cup {TrackerCall} :
            lock_todo' = [lock_todo EXCEPT !["TMC-WebSocket"] = steps]
    /\ UNCHANGED <<lock_owner, nestRest>>

\* the price feed's thread: a message
PriceBegins ==
    /\ lock_todo["Chainlink-WS"] = <<>>
    /\ \E logs \in BOOLEAN :
            lock_todo' = [lock_todo EXCEPT !["Chainlink-WS"] = LocksOfOnMessage(logs)]
    /\ UNCHANGED <<lock_owner, nestRest>>

\* lock.acquire(): waits until no thread is inside
LockAcquires(t) ==
    /\ lock_todo[t] # <<>>
    /\ Head(lock_todo[t])[1] = "acquire"
    /\ lock_owner[Head(lock_todo[t])[2]] = None
    /\ lock_owner' = [lock_owner EXCEPT ![Head(lock_todo[t])[2]] = Some(t)]
    /\ lock_todo' = [lock_todo EXCEPT ![t] = Tail(@)]
    /\ UNCHANGED nestRest

\* lock.release() at the end of the "with" block
LockReleases(t) ==
    /\ lock_todo[t] # <<>>
    /\ Head(lock_todo[t])[1] = "release"
    /\ lock_owner' = [lock_owner EXCEPT ![Head(lock_todo[t])[2]] = None]
    /\ lock_todo' = [lock_todo EXCEPT ![t] = Tail(@)]
    /\ UNCHANGED nestRest

NestNext ==
    \/ MainBegins
    \/ OddsBegins
    \/ PriceBegins
    \/ \E t \in Threads : LockAcquires(t) \/ LockReleases(t)

SpecNest == Init /\ [][NestNext]_vars

-----------------------------------------------------------------------------
(* Properties of the coordinator loop *)

RowsFor(m) == {i \in 1..Len(ledger) : ledger[i].condition_id = m}

FailedKinds == {Some("order_failed"), Some("rejected")}

\* C1: over any run of ticks, discovery passes and expiry sweeps,
\* check_signals returns at most one Opportunity per market id, also after
\* mark_expired has removed the id from the fired set
C1_AtMostOneOpportunity ==
    \A m \in Markets : opp_count[m] <= 1

\* a market that fired once has been swept (mark_expired took it out of the
\* fired set) and a later tick passed without evaluating it
C1_Witness ==
    \E m \in Markets :
        /\ opp_count[m] = 1
        /\ m \notin fired
        /\ m \notin tracked_condition_ids(World)
        /\ \E i \in 1..Len(shadow) : shadow[i].condition_id = m
        /\ \A i \in 1..Len(tick) : tick[i].m # m
        /\ now > end_date(m) + 1

\* C2: on every check_signals tick, for every tracked market, either an
\* Opportunity is returned or one skip record with a reason code is appended
\* to the market's skip log, never both and never neither
C2_FireOrSkipRecord ==
    \A i \in 1..Len(tick) :
        LET log == skipped_signals[tick[i].m]
        IN  \/ tick[i].fired /\ tick[i].recorded = 0
            \/ /\ ~tick[i].fired
               /\ tick[i].recorded = 1
               /\ log # <<>>
               /\ log[Len(log)].skip_reason # ""

\* C5: the ledger holds at most one row per market id, and execute() is
\* called at most once per market
C5_OneLedgerEntryPerMarket ==
    \A m \in Markets :
        /\ Cardinality(RowsFor(m)) <= 1
        /\ exec_count[m] <= 1

\* a market with its one row was evaluated again while tracked and the
\* second fire was suppressed by the fired set
C5_Witness ==
    \E m \in Markets :
        /\ Cardinality(RowsFor(m)) = 1
        /\ exec_count[m] = 1
        /\ \E i \in 1..Len(tick) : tick[i].m = m /\ tick[i].gate = "already_fired"

-----------------------------------------------------------------------------
(* Properties of discovery, strike capture and untracking *)

\* C12: once a tracked market's strike is set it does not change while the
\* market stays tracked, whatever the later passes read from the price feed
\* and whether or not the finder returns the market again
C12_StrikeSetOnce ==
    [][ \A m \in Markets :
            ( /\ m \in SeqToSet(trackers)
              /\ m \in SeqToSet(trackers')
              /\ strike_price[m] # None )
            => strike_price'[m] = strike_price[m] ]_vars

\* a market with a strike was returned by the finder again, in a later pass
\* that read another price from the feed, and kept its strike
C12_Witness ==
    \E m \in Markets :
        /\ m \in SeqToSet(trackers)
        /\ strike_price[m] # None
        /\ captured_at[m] # None
        /\ captured_at[m][1] < last_pass.t
        /\ m \in last_pass.found
        /\ m \in last_pass.tracked
        /\ last_pass.price # None
        /\ last_pass.price # strike_price[m]

\* C13: a strike is not set before the market's window opens, and its value
\* is a price the feed showed at the window-open instant
C13_StrikeIsSpotAtOpen ==
    \A m \in Markets :
        strike_price[m] # None
        => ( /\ captured_at[m] # None
             /\ start_date(m)[1] <= captured_at[m][1]
             /\ strike_price[m][1] \in spot_at_open[m] )

\* C14: a market is removed from the tracker at most once, only when the
\* clock is past its end date, and is never tracked again afterwards
C14_UntrackedOnceAfterExpiry ==
    \A m \in Markets :
        /\ Len(untracked_at[m]) <= 1
        /\ \A i \in 1..Len(untracked_at[m]) : untracked_at[m][i] > end_date(m)
        /\ untracked_at[m] # <<>> => m \notin SeqToSet(trackers)

\* a market was removed and a later pass has run
C14_Witness ==
    \E m \in Markets :
        /\ untracked_at[m] # <<>>
        /\ last_pass.t > untracked_at[m][1]
        /\ m \notin SeqToSet(trackers)

-----------------------------------------------------------------------------
(* Properties of the expiry sweep *)

\* the place of each statement in the order (a) to (e)
StepRank(name) ==
    CASE name = "snapshot" -> 1
      [] name = "resolve" -> 2
      [] name = "executor_resolve" -> 3
      [] name = "persist" -> 4
      [] name = "untrack" -> 5

\* C15: for a market past expiry the sweep snapshots the histories, resolves
\* the outcome, calls the executor's resolve, persists the audit record and
\* untracks the market, in this order, so the market is still in the tracker
\* while the outcome is resolved and the audit record is persisted
C15_SweepOrder ==
    \A i \in 1..Len(sweep.steps) :
        /\ sweep.steps[i].step \in {"resolve", "executor_resolve", "persist"}
           => sweep.steps[i].tracked
        /\ i > 1 => StepRank(sweep.steps[i - 1].step) < StepRank(sweep.steps[i].step)

\* the sweep is between untracking market m and the end of its audit write
MidSweep(m) ==
    /\ sweep.cid = Some(m)
    /\ sweep.pc \in {"resolve", "executor_resolve", "persist"}

\* C16: once a market has been untracked and its skip log dropped, the shadow
\* file holds an audit record of the market with every skip record of its
\* tracked lifetime, also when the resolution or the audit write raised
C16_SkipsPersistedBeforeDiscard ==
    \A m \in Markets :
        ( /\ lifetime_skips[m] # None
          /\ m \notin tracked_condition_ids(World)
          /\ ~MidSweep(m) )
        => \E i \in 1..Len(shadow) :
              /\ shadow[i].condition_id = m
              /\ shadow[i].skipped_signals = lifetime_skips[m][1]

-----------------------------------------------------------------------------
(* Properties of the main loop's control flow *)

\* C17: while the running flag is set, no exception raised by a call of the
\* main-loop thread ends the thread
C17_LoopSurvivesExceptions ==
    running => main.pc # "dead"

-----------------------------------------------------------------------------
(* Properties of the gates of check_signals *)

Ticked == probe # None /\ probe[1].fn = "check_signals"

\* the first gate of G0..G4 that the inputs of a tick fail, "later" if none
FirstFailingGate(p) ==
    LET remaining == end_date(p.m) - p.t IN
    IF p.was_fired THEN "G0"
    ELSE IF p.strike = None THEN "G1"
    ELSE IF remaining < tmc_min_seconds_remaining \/ remaining > tmc_entry_window THEN "G2"
    ELSE IF p.volatility = None THEN "G3"
    ELSE IF p.volatility[1] < tmc_min_volatility THEN "G3"
    ELSE IF p.rd.asks[1] = None \/ p.rd.asks[2] = None THEN "G4"
    ELSE IF p.rd.asks[1][1] <= 0 \/ p.rd.asks[2][1] <= 0 THEN "G4"
    ELSE "later"

\* the reasons of the gates that come after the volatility gate
LaterReasons ==
    { "no_valid_asks", "distance_ratio_too_high", "confirming_momentum",
      "cheap_side_too_expensive" }

\* C24: a tick that does not fire records a skip, and when the first failing
\* gate is one of G0..G3 the recorded reason is not that of a later gate
C24_ReasonOfFirstFailingGate ==
    (Ticked /\ probe[1].ev.kind # "fire") =>
        /\ probe[1].ev.kind = "skip"
        /\ FirstFailingGate(probe[1]) \in {"G0", "G1", "G2", "G3"}
              => probe[1].ev.entry.skip_reason \notin LaterReasons

\* C25: a fired Opportunity buys YES when the price is above the strike and
\* NO otherwise
C25_BuysFavorite ==
    (Ticked /\ probe[1].ev.kind = "fire") =>
        probe[1].ev.opp.buy_side =
            IF probe[1].price[1] > probe[1].strike[1] THEN "YES" ELSE "NO"

\* C26: a tick fires only with the strike known and with a remaining time
\* that is positive and within [tmc_min_seconds_remaining, tmc_entry_window]
C26_FiresInsideWindow ==
    (Ticked /\ probe[1].ev.kind = "fire") =>
        LET remaining == end_date(probe[1].m) - probe[1].t IN
        /\ probe[1].strike # None
        /\ remaining > 0
        /\ remaining >= tmc_min_seconds_remaining
        /\ remaining <= tmc_entry_window

C26_Witness ==
    /\ Ticked
    /\ probe[1].ev.kind = "fire"
    /\ end_date(probe[1].m) - probe[1].t = tmc_execution_window

\* C27: no tick fires with the volatility unavailable or below
\* tmc_min_volatility
C27_NoFireOnLowVolatility ==
    (Ticked /\ probe[1].ev.kind = "fire") =>
        /\ probe[1].volatility # None
        /\ probe[1].volatility[1] >= tmc_min_volatility

ConfiguredTicked == probe # None /\ probe[1].fn = "check_signals under config"

\* C34: a tick fires only with a remaining time of at least
\* tmc_min_seconds_remaining and at most tmc_execution_window, so that with
\* tmc_min_seconds_remaining above tmc_execution_window none fires; a skip
\* marked would_have_fired is one of a tick before the execution window
C34_FiresInsideExecutionWindow ==
    ConfiguredTicked =>
        LET p == probe[1]
            remaining == end_date(p.m) - p.t
        IN  /\ p.ev.kind = "fire" =>
                  /\ remaining >= p.cfg.tmc_min_seconds_remaining
                  /\ remaining <= p.cfg.tmc_execution_window
                  /\ p.cfg.tmc_min_seconds_remaining <= p.cfg.tmc_execution_window
            /\ (p.ev.kind = "skip" /\ p.ev.entry.would_have_fired) =>
                  /\ remaining > p.cfg.tmc_execution_window
                  /\ remaining <= p.cfg.tmc_entry_window

\* with tmc_min_seconds_remaining past the execution window, a tick whose
\* signal passes in the entry window
C34_Witness ==
    /\ ConfiguredTicked
    /\ probe[1].cfg.tmc_min_seconds_remaining > probe[1].cfg.tmc_execution_window
    /\ probe[1].ev.kind = "skip"
    /\ probe[1].ev.entry.would_have_fired

\* a tick that fires at the last second the configuration allows
C34_FiresAtMinimum ==
    /\ ConfiguredTicked
    /\ probe[1].ev.kind = "fire"
    /\ probe[1].cfg.tmc_min_seconds_remaining = tmc_execution_window
    /\ end_date(probe[1].m) - probe[1].t = tmc_execution_window

-----------------------------------------------------------------------------
(* Properties of the probability model *)

ProbCalled == probe # None /\ probe[1].fn = "calc_prob_above"

\* C23: with any of price, strike, vol or T at or below zero the function
\* raises nothing and returns 0.5
C23_DegenerateGivesHalf ==
    ( /\ ProbCalled
      /\ \/ probe[1].price <= 0
         \/ probe[1].strike <= 0
         \/ probe[1].vol <= 0
         \/ probe[1].T <= 0 )
    => probe[1].out = [raised |-> FALSE, prob |-> "0.5"]

\* a call with no time left and the other arguments positive
C23_Witness ==
    /\ ProbCalled
    /\ probe[1].T = 0
    /\ probe[1].price > 0 /\ probe[1].strike > 0 /\ probe[1].vol > 0
    /\ probe[1].out.prob = "0.5"

\* C33: norm_cdf returns exactly 1.0 for every x >= 8 and exactly 0.0 for
\* every x <= -8
C33_SaturatesAtEight ==
    (probe # None /\ probe[1].fn = "norm_cdf") =>
        /\ probe[1].x >= 8 * 8 => probe[1].out = [near |-> "1.0", gap |-> 0]
        /\ probe[1].x <= 0 - 8 * 8 => probe[1].out = [near |-> "0.0", gap |-> 0]

-----------------------------------------------------------------------------
(* Properties of the price feed's queries *)

PriceAtCalled == probe # None /\ probe[1].fn = "get_price_at"

\* the distance of the buffered sample nearest to the target
NearestDistance(hist, target_ts) ==
    LET ds == { Abs(hist[i][1] - target_ts) : i \in DOMAIN hist }
    IN  CHOOSE d \in ds : \A e \in ds : d <= e

\* C21: get_price_at returns the price of a sample nearest to the target
\* when that sample is within 60 seconds of it, and the latest price when
\* the nearest sample is farther or the buffer is empty
C21_NearestWithinTolerance ==
    PriceAtCalled =>
        LET hist == probe[1].hist
            target_ts == probe[1].target_ts
            out == probe[1].out
        IN  IF hist = <<>> THEN out = None
            ELSE IF NearestDistance(hist, target_ts) > PriceAtTolerance
                 THEN out = Some(hist[Len(hist)][2])
            ELSE \E i \in DOMAIN hist :
                    /\ Abs(hist[i][1] - target_ts) = NearestDistance(hist, target_ts)
                    /\ out = Some(hist[i][2])

\* a call answered from the buffer with a price that is not the latest one
C21_Witness ==
    /\ PriceAtCalled
    /\ probe[1].out # None
    /\ probe[1].out # Some(probe[1].hist[Len(probe[1].hist)][2])
    /\ NearestDistance(probe[1].hist, probe[1].target_ts) = PriceAtTolerance

VolatilityCalled == probe # None /\ probe[1].fn = "get_volatility"

\* the samples of the probed history that fall inside the trailing window
InWindow ==
    { i \in DOMAIN probe[1].hist :
        probe[1].hist[i][1] >= probe[1].now_ts - probe[1].window_seconds }

\* C22: with fewer than 10 samples in the window, or fewer than 5 returns
\* between them, get_volatility returns None and not a number; a number,
\* zero included, is returned only with both thresholds met
C22_UnavailableNotZero ==
    VolatilityCalled =>
        LET short == \/ Cardinality(InWindow) < MinPoints
                     \/ Cardinality(InWindow) - 1 < MinReturns
        IN  /\ short => probe[1].out = None
            /\ probe[1].out # None => ~short

\* a flat price over a full window: the volatility is a true zero
C22_Witness ==
    /\ VolatilityCalled
    /\ Cardinality(InWindow) = MinPoints
    /\ probe[1].out = Some(0)

\* C30: the history never holds two samples with the same timestamp
C30_NoDuplicateTimestamps ==
    \A i \in DOMAIN history : \A j \in DOMAIN history :
        history[i][1] = history[j][1] => i = j

-----------------------------------------------------------------------------
(* Properties of the odds tracker *)

\* the asks delivered for one side of a market since it was added
SideAsks(m, side) == SelectSeq(received[m], LAMBDA u : u[1] = side)

\* C29: a market has a snapshot only once both its tokens have had a best
\* ask since it was added, and its latest snapshot holds the latest best
\* ask of each of its two tokens
C29_SnapshotNeedsBothSides ==
    \A m \in Markets :
        snapshots[m] # <<>> =>
            LET yes == SideAsks(m, "yes")
                no == SideAsks(m, "no")
                snap == snapshots[m][Len(snapshots[m])]
            IN  /\ yes # <<>> /\ no # <<>>
                /\ snap.yes_price = Some(yes[Len(yes)][2])
                /\ snap.no_price = Some(no[Len(no)][2])

\* a market with one snapshot per update since both sides were known
C29_Witness ==
    \E m \in tracker_ids :
        /\ Len(received[m]) = MaxUpdates
        /\ Len(snapshots[m]) = MaxUpdates - 1
        /\ snapshots[m][1].yes_price # snapshots[m][2].yes_price

\* C28: a connection of the odds stream that is subscribed to a token set
\* other than the current one does not stay open: it is closed, or the
\* token set becomes the one it is subscribed to
C28_StaleSubscriptionCloses ==
    (sub.open /\ sub.subscribed # tracker_ids)
        ~> (~sub.open \/ sub.subscribed = tracker_ids)

\* C40: the outcome the sweep resolves is YES exactly when the price for
\* the expiry instant is above the strike; a price at the strike gives NO
C40_OutcomeYesIffAboveStrike ==
    sweep.outcome # None =>
        /\ sweep.final_price # None /\ sweep.strike # None
        /\ sweep.outcome[1] = "YES" <=> sweep.final_price[1] > sweep.strike[1]
        /\ sweep.outcome[1] = "NO" <=> sweep.final_price[1] <= sweep.strike[1]

\* a market resolved with the final price at its strike
C40_Witness ==
    /\ sweep.outcome = Some("NO")
    /\ sweep.final_price = sweep.strike

\* C39: the keys of _trackers are the keys of _current_prices, and the
\* token index holds exactly the two tokens of each tracked market, each
\* mapped to its market
C39_MapsAgree ==
    /\ DOMAIN current_prices = tracker_ids
    /\ DOMAIN token_to_market =
          {YesToken(m) : m \in tracker_ids} \cup {NoToken(m) : m \in tracker_ids}
    /\ \A m \in tracker_ids :
          token_to_market[YesToken(m)] = m /\ token_to_market[NoToken(m)] = m

\* one market tracked with a price on each side, another removed after it
\* had snapshots
C39_Witness ==
    \E m \in tracker_ids, r \in Markets \ tracker_ids :
        /\ current_prices[m].yes # None /\ current_prices[m].no # None
        /\ snapshots[r] # <<>>

\* C31: the buffered samples are in non-decreasing order of timestamp
C31_TimeOrdered ==
    \A i \in 1..Len(history) - 1 : history[i][1] <= history[i + 1][1]

\* C38: once the expiry sweep has untracked a market, no ledger row of that
\* market is left without an outcome
C38_RowsResolvedByTheSweep ==
    \A i \in 1..Len(ledger) :
        ledger[i].outcome = None =>
            ledger[i].condition_id \in tracked_condition_ids(World)

\* a market that fired, was traded and has been swept: its row is resolved
C38_Witness ==
    \E i \in 1..Len(ledger) :
        /\ ledger[i].outcome # None
        /\ ledger[i].condition_id \notin tracked_condition_ids(World)
        /\ ledger[i].condition_id \notin fired

\* the locks a thread is inside
HeldBy(t) == {l \in LockNames : lock_owner[l] = Some(t)}

\* the thread waits for a lock that some thread is inside
Waits(t) ==
    /\ lock_todo[t] # <<>>
    /\ Head(lock_todo[t])[1] = "acquire"
    /\ lock_owner[Head(lock_todo[t])[2]] # None

\* C32: no thread is inside two locks at a time, and a thread that waits
\* for a lock holds none and waits for a thread that is not waiting
C32_NoNestedLocks ==
    \A t \in Threads :
        /\ Cardinality(HeldBy(t)) <= 1
        /\ Waits(t) =>
              /\ HeldBy(t) = {}
              /\ ~Waits(lock_owner[Head(lock_todo[t])[2]][1])

\* the odds thread waits to record a snapshot while the main loop reads the
\* snapshots of the same market, and the price thread is inside its lock
C32_Witness ==
    /\ Waits("TMC-WebSocket")
    /\ \E m \in Markets : HeldBy("TMC-Main") = {SnapshotLock(m)}
    /\ HeldBy("Chainlink-WS") = {FeedLock}

-----------------------------------------------------------------------------
(* Properties of the feeds *)

\* C18: once stop() has cleared a feed's flag and closed its socket, no
\* connection of that feed is open
C18_NoConnectionAfterStop ==
    \A f \in Feeds : feed[f].stop_pc = "closed" => ~feed[f].open

\* the reconnect loop ends only on a cleared flag
LoopEndsOnlyOnStop == \A f \in Feeds : feed[f].pc = "done" => ~feed[f].running

\* C19 as stated: while a feed is running, a disconnect or a connection error
\* never ends its reconnect loop and is followed by another connection
\* attempt
C19_AlwaysReconnects ==
    /\ []LoopEndsOnlyOnStop
    /\ \A f \in Feeds :
          (feed[f].pc = "after" /\ feed[f].running)
              ~> (feed[f].pc = "connect" \/ ~feed[f].running)

\* C19: while a feed is running, a disconnect or a connection error never
\* ends its reconnect loop and is followed by another connection attempt,
\* unless the feed is left with no token to subscribe to
C19_ReconnectsWhileSubscribed ==
    /\ []LoopEndsOnlyOnStop
    /\ \A f \in Feeds :
          (feed[f].pc = "after" /\ feed[f].running)
              ~> (feed[f].pc = "connect" \/ ~feed[f].running \/ ~feed[f].tokens)

\* a running feed that lost a connection is about to connect again
C19_Witness ==
    \E f \in Feeds :
        /\ feed[f].running
        /\ feed[f].pc = "connect"
        /\ feed[f].ws
        /\ ~feed[f].open

-----------------------------------------------------------------------------
(* Properties of the JSON files *)

\* C20: a write that finds the file unreadable or not holding a JSON array
\* raises nothing and leaves an array with only the new record
C20_CorruptFileNeverFatal ==
    last_save # None =>
        LET s == last_save[1] IN
        s.found \in DamagedKinds =>
            /\ ~s.raised
            /\ s.left = [kind |-> "array", rows |-> <<s.entry>>]

-----------------------------------------------------------------------------
(* Properties of the executor *)

KillErrors ==
    { Some("Kill switch activated - max daily loss reached"),
      Some("Kill switch - max daily loss") }

\* the counter the kill-switch test of the latest execute() call compared
LossAtCheck ==
    IF last_call.today # last_call.pre_reset THEN 0 ELSE last_call.pre_loss

\* the latest call was a live execute() that got past the kill switch
LiveAttempt ==
    /\ last_call.kind = "execute"
    /\ ~dry_run
    /\ ~last_call.pre_killed
    /\ LossAtCheck < tmc_max_daily_loss

NewOrders == SubSeq(orders, last_call.pre_orders + 1, Len(orders))
NewRows == SubSeq(ledger, last_call.pre_rows + 1, Len(ledger))

\* C3: once the daily-loss counter has reached the ceiling, an execute() call
\* made on the same UTC date is rejected, places no order and writes no row
C3_RejectedAtCeiling ==
    ( /\ last_call.kind = "execute"
      /\ last_call.pre_loss >= tmc_max_daily_loss
      /\ last_call.today = last_call.pre_reset )
    => ( /\ ~last_call.res.success
         /\ NewOrders = <<>>
         /\ NewRows = <<>> )

C3_Witness ==
    /\ last_call.kind = "execute"
    /\ last_call.pre_loss >= tmc_max_daily_loss
    /\ last_call.today = last_call.pre_reset
    /\ ~last_call.pre_killed
    /\ last_call.res.error = Some("Kill switch - max daily loss")

\* C4: the first execute() call made on a later UTC date after the kill
\* switch latched clears the counter, re-arms the executor and processes the
\* Opportunity (one ledger row) instead of rejecting it
C4_RearmedAfterRollover ==
    ( /\ last_call.kind = "execute"
      /\ last_call.pre_killed
      /\ last_call.today > last_call.pre_reset )
    => ( /\ ~killed
         /\ daily_reset = last_call.today
         /\ last_call.res.error \notin KillErrors
         /\ Len(NewRows) = 1 )

\* C6: execute creates a row with null outcome fields, a row whose outcome is
\* filled is never changed again, and a resolve call that directly follows a
\* resolve call for the same market, with the same or another outcome and
\* final price, changes no row
C6_ResolveIdempotent ==
    [][ /\ \A i \in (Len(ledger) + 1)..Len(ledger') :
             /\ ledger'[i].outcome = None
             /\ ledger'[i].final_crypto_price = None
             /\ ledger'[i].payout = None
             /\ ledger'[i].net_return = None
             /\ ledger'[i].return_pct = None
        /\ \A i \in 1..Len(ledger) :
             ledger[i].outcome # None => ledger'[i] = ledger[i]
        /\ ( /\ last_call.kind = "resolve"
             /\ last_call'.kind = "resolve"
             /\ last_call'.condition_id = last_call.condition_id )
           => ledger' = ledger ]_vars

\* a second resolve call with another outcome found a filled row and left it
C6_Witness ==
    /\ last_call.kind = "resolve"
    /\ last_call.repeat
    /\ \E i \in 1..Len(ledger) :
          /\ ledger[i].condition_id = last_call.condition_id
          /\ ledger[i].outcome # None
          /\ ledger[i].outcome # Some(last_call.outcome)

C9_SingleOrderOnChosenSide ==
    LiveAttempt
    => ( /\ \A i \in 1..Len(NewOrders) :
               /\ NewOrders[i].token_id = last_call.opp.buy_token_id
               /\ NewOrders[i].amount = last_call.opp.amount
         /\ last_call.venue = "ok" => Len(NewOrders) = 1 )

\* a ledger row without its order ids and dry_run flag
RowCore(row) == [row EXCEPT !.order_ids = <<>>, !.dry_run = FALSE]

\* C10: the dry-run executor makes the same accept/reject decisions and writes
\* the same rows (order ids and dry_run flag apart) as the live executor
\* whose orders all succeed, and posts nothing to the venue
C10_DryRunSameAsLive ==
    twin.res # None
    => ( /\ twin.res[1].success = last_call.res.success
         /\ Len(twin.st.ledger) = Len(ledger)
         /\ \A i \in 1..Len(ledger) : RowCore(twin.st.ledger[i]) = RowCore(ledger[i])
         /\ twin.st.orders = <<>> )

-----------------------------------------------------------------------------
(* Properties of the executor under concurrent callers *)

\* the callers between the kill-switch check and the end of the ledger write
InFlight == {t \in Callers : caller[t].pc \in {"inner", "save_read", "save_write"}}

\* the callers that have read TRADES_FILE and have not yet written it back
MidLedgerUpdate == {t \in Callers : caller[t].pc \in {"save_write", "outcome_write"}}

\* C11: at most one execution is in flight between the kill-switch check and
\* the ledger write, no two executor operations (execute, resolve) are in the
\* middle of a read-modify-write of the ledger file at once, and every row a
\* completed execution wrote is in the ledger
C11_SerializedByLock ==
    /\ Cardinality(InFlight) <= 1
    /\ Cardinality(MidLedgerUpdate) <= 1
    /\ Len(ledger) = nsaved

-----------------------------------------------------------------------------
(* Properties of the daily-loss counter *)

\* the latest execute() call went to the venue: it was live and left a row
AttemptMade ==
    /\ last_call.kind = "execute"
    /\ ~dry_run
    /\ NewRows # <<>>

\* C35: an order attempt starts only with the counter below the ceiling, the
\* counter never exceeds the ceiling plus one stake, and the call whose
\* charge takes the counter to the ceiling is not rejected and does not set
\* the kill switch
C35_AttemptsStartBelowCeiling ==
    /\ AttemptMade => LossAtCheck < tmc_max_daily_loss
    /\ daily_loss <= tmc_max_daily_loss + tmc_max_investment
    /\ ( AttemptMade /\ daily_loss >= tmc_max_daily_loss )
       => ( ~killed /\ last_call.res.error \notin KillErrors )

\* a charge that took the counter past the ceiling
C35_Witness ==
    /\ AttemptMade
    /\ LossAtCheck > 0
    /\ daily_loss > tmc_max_daily_loss
    /\ last_call.res.success

\* C36: the counter changes only in an execute() call: the call's day
\* rollover clears it, a live call that places its orders adds the stake, a
\* live call whose placement fails adds half the stake, and a rejected call
\* or a dry-run call adds nothing; resolve leaves the counter alone
C36_CounterChanges ==
    [][ IF ncalls' = ncalls
        THEN daily_loss' = daily_loss
        ELSE LET call == last_call'
                 rejected == call.res.error \in KillErrors
                 base == IF ~call.pre_killed /\ call.today # call.pre_reset
                         THEN 0 ELSE daily_loss
                 charge == daily_loss' - base
             IN  /\ (rejected \/ dry_run) => charge = 0
                 /\ (~rejected /\ ~dry_run /\ call.res.success)
                       => charge = call.opp.total_cost
                 /\ (~rejected /\ ~dry_run /\ ~call.res.success)
                       => 2 * charge = call.opp.total_cost ]_vars

\* a failed placement on a new day, after a charge the day before
C36_Witness ==
    /\ last_call.kind = "execute"
    /\ last_call.today # last_call.pre_reset
    /\ last_call.pre_loss > 0
    /\ ~last_call.res.success
    /\ 2 * daily_loss = last_call.opp.total_cost

\* C37: in dry-run the counter stays 0, the kill switch is never set and
\* every execute() call is accepted and writes its row
C37_DryRunNeverKilled ==
    dry_run =>
        /\ daily_loss = 0
        /\ ~killed
        /\ last_call.kind = "execute" =>
               /\ last_call.res.success
               /\ last_call.res.error = None
               /\ Len(NewRows) = 1

\* every call of a dry run accepted, on both sides of midnight
C37_Witness ==
    /\ dry_run
    /\ ncalls = MaxCalls
    /\ Len(ledger) = MaxCalls
    /\ last_call.kind = "execute"
    /\ last_call.today # last_call.pre_reset

=============================================================================
